---- MODULE Spec2Model ----
(***************************************************************************)
(* JWT header-splitting protocol of microservices-demo-jwt-split.          *)
(*                                                                         *)
(* Strings are Go strings: finite sequences of bytes (0..255).  A metadata *)
(* set (grpc metadata.MD) is a function from key to the list of values     *)
(* stored under that key; md.Get(k) is md[k], the empty list when the key  *)
(* is absent.                                                              *)
(***************************************************************************)
EXTENDS Integers, Sequences, FiniteSets, TLC

VARIABLES
    jwtToken,      \* codec run: the argument of DecomposeJWT
    components,    \* codec run: the result of DecomposeJWT
    reassembled,   \* codec run: the result of ReassembleJWT
    codecPc,       \* codec run: "idle" | "decomposed" | "failed" | "reassembled"
    environ,       \* ENABLE_JWT_COMPRESSION in the frontend and checkout processes
    pc,            \* where the call chain stands
    origin,        \* who started: "frontend" | "client" | "leafClient" | "payment"
                   \* | "threeWay"
    edge,          \* the frontend call: method, context values, outgoing metadata
    relayIn,       \* the call the relay receives
    relayCtx,      \* the relay's call context while its handler runs
    relayOutgoing, \* outgoing metadata the relay's handler context already holds
    relayHandled,  \* how many times the relay's handler was invoked
    calls,         \* the calls that reached a leaf, in order: what the leaf
                   \* received, the jwtToken it reassembled, its handler count
    srv,           \* one server interceptor run alone: the service, the call
                   \* it receives, its handler count and how it ended
    payment,       \* the payment service's sender: its flag, the credential it
                   \* is given and the metadata of the call it prepares
    workers,       \* concurrent codec runs: for each goroutine its codec, its
                   \* credential, its local variables, its results, its position
    retry,         \* one call through the retry layer: the outcomes of the
                   \* attempts so far, the delays taken, the loop counter, the
                   \* value returned
    injector,      \* the fault injector: its configuration, and for each
                   \* goroutine calling through it the method, the position,
                   \* the random draws, the invocations of the wrapped call and
                   \* the value returned
    inflight       \* concurrent calls at the relay: the flag of the process,
                   \* and for each call its inbound metadata, its context, its
                   \* position and the outbound calls made for it

codecVars == <<jwtToken, components, reassembled, codecPc>>

chainVars ==
    <<environ, pc, origin, edge, relayIn, relayCtx, relayOutgoing, relayHandled, calls>>

vars == <<codecVars, chainVars, srv, payment, inflight, workers, retry, injector>>

-----------------------------------------------------------------------------
(* Bounds of the model                                                     *)

\* longest payload segment of the credentials given to the codec
MaxPayloadLen == 4

\* longest payload segment of the credentials the frontend holds
MaxChainPayloadLen == 2

\* most outbound calls the relay's handler makes for one inbound call
MaxFanOut == 2

\* most calls the relay handles at the same time
MaxInFlight == 2

\* most codec runs that go on at the same time
MaxWorkers == 2

\* most calls that go through the fault injector at the same time
MaxCallers == 2

-----------------------------------------------------------------------------
(* Byte strings                                                            *)

\* "eyJhbGciOiJSUzI1NiIsInR5cCI6IkpXVCJ9"
JWTHeaderB64 ==
    <<101, 121, 74, 104, 98, 71, 99, 105, 79, 105, 74, 83, 85, 122, 73, 49, 78, 105,
      73, 115, 73, 110, 82, 53, 99, 67, 73, 54, 73, 107, 112, 88, 86, 67, 74, 57>>

\* "aGVhZGVy", the header segment of the specification's scenario A
ScenarioHeader == <<97, 71, 86, 104, 90, 71, 86, 121>>

\* "c2ln"
ScenarioSig == <<99, 50, 108, 110>>

\* "."
Dot == <<46>>

\* all sequences over S of length 0..n
RECURSIVE SeqsUpTo(_, _)
SeqsUpTo(S, n) ==
    IF n = 0 THEN {<<>>}
    ELSE LET shorter == SeqsUpTo(S, n - 1)
         IN  shorter \cup {Append(s, c) : s \in {t \in shorter : Len(t) = n - 1}, c \in S}

\* strings.Split(s, "."): the segments between the dots, one segment for ""
RECURSIVE SplitFrom(_, _, _)
SplitFrom(s, i, cur) ==
    IF i > Len(s) THEN <<cur>>
    ELSE IF s[i] = 46 THEN <<cur>> \o SplitFrom(s, i + 1, <<>>)
    ELSE SplitFrom(s, i + 1, Append(cur, s[i]))

Split(s) == SplitFrom(s, 1, <<>>)

\* fmt.Sprintf("%s.%s.%s", h, p, s)
Sprintf3(h, p, s) == h \o Dot \o p \o Dot \o s

-----------------------------------------------------------------------------
(* encoding/base64, RawURLEncoding: URL alphabet, no padding, decoding not  *)
(* strict                                                                  *)

\* decodeMap of the URL alphabet: the 6-bit value of a byte, 255 when the
\* byte is not in the alphabet
decodeMap(c) ==
    IF c >= 65 /\ c <= 90 THEN c - 65
    ELSE IF c >= 97 /\ c <= 122 THEN c - 71
    ELSE IF c >= 48 /\ c <= 57 THEN c + 4
    ELSE IF c = 45 THEN 62
    ELSE IF c = 95 THEN 63
    ELSE 255

\* the alphabet byte of a 6-bit value
encodeURL(v) ==
    IF v <= 25 THEN v + 65
    ELSE IF v <= 51 THEN v + 71
    ELSE IF v <= 61 THEN v - 4
    ELSE IF v = 62 THEN 45
    ELSE 95

\* the decoder skips '\r' and '\n' wherever they stand
StripNewlines(s) == SelectSeq(s, LAMBDA c : c # 10 /\ c # 13)

\* 4 values -> 3 bytes; a last group of 3 values -> 2 bytes and of 2 values
\* -> 1 byte, the unused low bits of the last value being dropped unchecked
RECURSIVE DecodeQuanta(_)
DecodeQuanta(v) ==
    IF Len(v) = 0 THEN <<>>
    ELSE IF Len(v) >= 4 THEN
        LET val == v[1] * 262144 + v[2] * 4096 + v[3] * 64 + v[4]
        IN  <<val \div 65536, (val \div 256) % 256, val % 256>>
                \o DecodeQuanta(SubSeq(v, 5, Len(v)))
    ELSE IF Len(v) = 3 THEN
        LET val == v[1] * 262144 + v[2] * 4096 + v[3] * 64
        IN  <<val \div 65536, (val \div 256) % 256>>
    ELSE
        LET val == v[1] * 262144 + v[2] * 4096
        IN  <<val \div 65536>>

\* base64.RawURLEncoding.DecodeString: [err, bytes]
DecodeString(s) ==
    LET t == StripNewlines(s)
        v == [i \in 1..Len(t) |-> decodeMap(t[i])]
    IN  IF (\E i \in 1..Len(t) : v[i] = 255) \/ Len(t) % 4 = 1
        THEN [err |-> TRUE, bytes |-> <<>>]
        ELSE [err |-> FALSE, bytes |-> DecodeQuanta(v)]

\* base64.RawURLEncoding.EncodeToString
RECURSIVE EncodeToString(_)
EncodeToString(b) ==
    IF Len(b) = 0 THEN <<>>
    ELSE IF Len(b) >= 3 THEN
        LET val == b[1] * 65536 + b[2] * 256 + b[3]
        IN  <<encodeURL(val \div 262144), encodeURL((val \div 4096) % 64),
              encodeURL((val \div 64) % 64), encodeURL(val % 64)>>
                \o EncodeToString(SubSeq(b, 4, Len(b)))
    ELSE IF Len(b) = 2 THEN
        LET val == b[1] * 65536 + b[2] * 256
        IN  <<encodeURL(val \div 262144), encodeURL((val \div 4096) % 64),
              encodeURL((val \div 64) % 64)>>
    ELSE
        LET val == b[1] * 65536
        IN  <<encodeURL(val \div 262144), encodeURL((val \div 4096) % 64)>>

-----------------------------------------------------------------------------
(* frontend/jwt_compression.go: the 2-way codec                            *)

\* the nil *JWTComponents returned with an error
NoComponents == [err |-> TRUE, Payload |-> <<>>, Signature |-> <<>>]

DecomposeJWT(tok) ==
    LET parts == Split(tok)
    IN  IF Len(parts) # 3 THEN NoComponents
        ELSE LET payloadJSON == DecodeString(parts[2])
             IN  IF payloadJSON.err THEN NoComponents
                 ELSE [err |-> FALSE, Payload |-> payloadJSON.bytes,
                       Signature |-> parts[3]]

ReassembleJWT(c) ==
    Sprintf3(JWTHeaderB64, EncodeToString(c.Payload), c.Signature)

-----------------------------------------------------------------------------
(* shippingservice/jwt_compression.go: the 3-way codec                     *)

\* the nil *JWTComponents returned with an error
shippingservice_NoComponents ==
    [err |-> TRUE, Header |-> <<>>, Payload |-> <<>>, Signature |-> <<>>]

shippingservice_DecomposeJWT(tok) ==
    LET parts == Split(tok)
    IN  IF Len(parts) # 3 THEN shippingservice_NoComponents
        ELSE LET payloadJSON == DecodeString(parts[2])
             IN  IF payloadJSON.err THEN shippingservice_NoComponents
                 ELSE [err |-> FALSE, Header |-> parts[1],
                       Payload |-> payloadJSON.bytes, Signature |-> parts[3]]

\* JWTComponents{Header, Payload, Signature}
shippingservice_ReassembleJWT(c) ==
    Sprintf3(c.Header, EncodeToString(c.Payload), c.Signature)

-----------------------------------------------------------------------------
(* grpc metadata and context values                                        *)

MDKeys ==
    {"authorization", "x-jwt-header", "x-jwt-payload", "x-jwt-sig", "x-jwt-static",
     "x-jwt-session", "x-jwt-dynamic", "x-request-id"}

CredentialKeys == MDKeys \ {"x-request-id"}

DecomposedKeys == CredentialKeys \ {"authorization"}

EmptyMD == [k \in MDKeys |-> <<>>]

\* the result of AppendToOutgoingContext is dropped: the context handed to the
\* invoker is the one the interceptor received
AppendToOutgoingContext_discarded(md, kv) == md

\* only the first pair is added
AppendToOutgoingContext_firstPairOnly(md, kv) ==
    IF Len(kv) = 0 THEN md ELSE [md EXCEPT ![kv[1][1]] = Append(@, kv[1][2])]

\* metadata.AppendToOutgoingContext(ctx, k1, v1, k2, v2, ...): the pairs are
\* added after the values the outgoing metadata already holds
RECURSIVE AppendToOutgoingContext(_, _)
AppendToOutgoingContext(md, kv) ==
    IF Len(kv) = 0 THEN md
    ELSE AppendToOutgoingContext(
             [md EXCEPT ![kv[1][1]] = Append(@, kv[1][2])], Tail(kv))

\* the pairs are left out: the context carries an empty metadata set
NewOutgoingContext_empty(md, kv) == EmptyMD

\* metadata.NewOutgoingContext(ctx, metadata.Pairs(k1, v1, ...)): the outgoing
\* metadata of the context is replaced by the pairs
NewOutgoingContext(md, kv) == AppendToOutgoingContext(EmptyMD, kv)

\* ctx.Value(key).(string): absent, or the string stored under the key
Absent == [ok |-> FALSE, val |-> <<>>]

Value(s) == [ok |-> TRUE, val |-> s]

\* "Bearer "
Bearer == <<66, 101, 97, 114, 101, 114, 32>>

HasPrefix(s, p) == Len(s) >= Len(p) /\ SubSeq(s, 1, Len(p)) = p

\* the prefix is left in place
TrimPrefix_kept(s, p) == s

\* strings.TrimPrefix
TrimPrefix(s, p) == IF HasPrefix(s, p) THEN SubSeq(s, Len(p) + 1, Len(s)) ELSE s

\* strings.Contains
Contains(s, sub) ==
    \E i \in 1..(Len(s) + 1) :
        i + Len(sub) - 1 <= Len(s) /\ SubSeq(s, i, i + Len(sub) - 1) = sub

\* one call of a codec function made by an interceptor: its name, its
\* argument (the token, or the payload of the components) and whether it
\* returned an error
CodecCall(op, arg, err) == [op |-> op, arg |-> arg, err |-> err]

\* os.Getenv("ENABLE_JWT_COMPRESSION") == "true", read from the environment of
\* the process that asks
IsJWTCompressionEnabled(env) == env = "true"

-----------------------------------------------------------------------------
(* checkoutservice/jwt_forwarder.go: the relay                             *)

\* the values the relay keeps in the context of one inbound call
NoCallContext == [ctxKeyJWT |-> Absent, ctxKeyJWTPayload |-> Absent, ctxKeyJWTSig |-> Absent]

\* an interceptor that stores the signature only when x-jwt-sig is there
checkoutservice_jwtUnaryServerInterceptor_sigIfPresent(in) ==
    IF in.ok /\ Len(in.md["x-jwt-payload"]) > 0
    THEN [ctxKeyJWT |-> Absent,
          ctxKeyJWTPayload |-> Value(in.md["x-jwt-payload"][1]),
          ctxKeyJWTSig |-> IF Len(in.md["x-jwt-sig"]) > 0
                           THEN Value(in.md["x-jwt-sig"][1]) ELSE Absent]
    ELSE [ctxKeyJWT |-> Absent, ctxKeyJWTPayload |-> Absent, ctxKeyJWTSig |-> Absent]

\* jwtUnaryServerInterceptor: the context handed to the handler.  `in` is the
\* inbound call: in.ok is the ok of metadata.FromIncomingContext
checkoutservice_jwtUnaryServerInterceptor(in) ==
    IF ~in.ok THEN NoCallContext
    ELSE IF Len(in.md["x-jwt-payload"]) > 0 THEN
        LET signature == IF Len(in.md["x-jwt-sig"]) > 0
                         THEN in.md["x-jwt-sig"][1] ELSE <<>>
        IN  [NoCallContext EXCEPT
                !.ctxKeyJWTPayload = Value(in.md["x-jwt-payload"][1]),
                !.ctxKeyJWTSig = Value(signature)]
    ELSE IF Len(in.md["authorization"]) > 0 THEN
        LET tok == TrimPrefix(in.md["authorization"][1], Bearer)
        IN  IF tok # <<>> THEN [NoCallContext EXCEPT !.ctxKeyJWT = Value(tok)]
            ELSE NoCallContext
    ELSE NoCallContext

\* an interceptor without the pass-through: it reassembles the components
\* it holds and decomposes the result again
checkoutservice_jwtUnaryClientInterceptor_roundTrip(ctx, outgoing, env) ==
    LET payload == ctx.ctxKeyJWTPayload
        sig == ctx.ctxKeyJWTSig
    IN  IF IsJWTCompressionEnabled(env) /\ payload.ok /\ sig.ok /\ payload.val # <<>>
        THEN LET tok == ReassembleJWT([err |-> FALSE, Payload |-> payload.val,
                                       Signature |-> sig.val])
                 c == DecomposeJWT(tok)
             IN  [outgoing |-> AppendToOutgoingContext(outgoing,
                      <<<<"x-jwt-payload", c.Payload>>, <<"x-jwt-sig", c.Signature>>>>),
                  codec |-> <<CodecCall("ReassembleJWT", payload.val, FALSE),
                              CodecCall("DecomposeJWT", tok, c.err)>>]
        ELSE [outgoing |-> outgoing, codec |-> <<>>]

\* an interceptor without the `!ok || jwtToken == ""` return: it sends an
\* authorization value whether or not the context holds a credential
checkoutservice_jwtUnaryClientInterceptor_unguarded(ctx, outgoing, env) ==
    [outgoing |-> AppendToOutgoingContext(outgoing,
         <<<<"authorization", Bearer \o ctx.ctxKeyJWT.val>>>>),
     codec |-> <<>>]

\* jwtStreamServerInterceptor: the context of the wrappedServerStream handed
\* to the handler
checkoutservice_jwtStreamServerInterceptor(in) ==
    IF ~in.ok THEN NoCallContext
    ELSE IF Len(in.md["x-jwt-payload"]) > 0 THEN
        LET signature == IF Len(in.md["x-jwt-sig"]) > 0
                         THEN in.md["x-jwt-sig"][1] ELSE <<>>
        IN  [NoCallContext EXCEPT
                !.ctxKeyJWTPayload = Value(in.md["x-jwt-payload"][1]),
                !.ctxKeyJWTSig = Value(signature)]
    ELSE IF Len(in.md["authorization"]) > 0 THEN
        LET tok == TrimPrefix(in.md["authorization"][1], Bearer)
        IN  IF tok # <<>> THEN [NoCallContext EXCEPT !.ctxKeyJWT = Value(tok)]
            ELSE NoCallContext
    ELSE NoCallContext

\* jwtUnaryClientInterceptor.  ctx: the values of the call context; outgoing:
\* the outgoing metadata the context already holds.  The result is the
\* outgoing metadata of the context handed to the invoker, and the codec
\* calls the interceptor made on the way
checkoutservice_jwtUnaryClientInterceptor(ctx, outgoing, env) ==
    LET payload == ctx.ctxKeyJWTPayload
        sig == ctx.ctxKeyJWTSig
        tok == ctx.ctxKeyJWT
    IN  IF IsJWTCompressionEnabled(env) /\ payload.ok /\ sig.ok /\ payload.val # <<>>
        THEN [outgoing |-> AppendToOutgoingContext(outgoing,
                  <<<<"x-jwt-payload", payload.val>>, <<"x-jwt-sig", sig.val>>>>),
              codec |-> <<>>]
        ELSE IF ~tok.ok \/ tok.val = <<>> THEN [outgoing |-> outgoing, codec |-> <<>>]
        ELSE IF IsJWTCompressionEnabled(env) THEN
            LET c == DecomposeJWT(tok.val)
            IN  [outgoing |->
                     IF c.err
                     THEN AppendToOutgoingContext(outgoing,
                              <<<<"authorization", Bearer \o tok.val>>>>)
                     ELSE AppendToOutgoingContext(outgoing,
                              <<<<"x-jwt-payload", c.Payload>>,
                                <<"x-jwt-sig", c.Signature>>>>),
                 codec |-> <<CodecCall("DecomposeJWT", tok.val, c.err)>>]
        ELSE [outgoing |-> AppendToOutgoingContext(outgoing,
                  <<<<"authorization", Bearer \o tok.val>>>>),
              codec |-> <<>>]

\* jwtStreamClientInterceptor: the outgoing metadata of the context handed
\* to the streamer, and the codec calls made on the way
checkoutservice_jwtStreamClientInterceptor(ctx, outgoing, env) ==
    LET payload == ctx.ctxKeyJWTPayload
        sig == ctx.ctxKeyJWTSig
        jwt == ctx.ctxKeyJWT
    IN  IF IsJWTCompressionEnabled(env) /\ payload.ok /\ sig.ok /\ payload.val # <<>>
        THEN [outgoing |-> AppendToOutgoingContext(outgoing,
                  <<<<"x-jwt-payload", payload.val>>, <<"x-jwt-sig", sig.val>>>>),
              codec |-> <<>>]
        ELSE IF ~jwt.ok \/ jwt.val = <<>> THEN [outgoing |-> outgoing, codec |-> <<>>]
        ELSE IF IsJWTCompressionEnabled(env) THEN
            LET c == DecomposeJWT(jwt.val)
            IN  [outgoing |->
                     IF c.err
                     THEN AppendToOutgoingContext(outgoing,
                              <<<<"authorization", Bearer \o jwt.val>>>>)
                     ELSE AppendToOutgoingContext(outgoing,
                              <<<<"x-jwt-payload", c.Payload>>,
                                <<"x-jwt-sig", c.Signature>>>>),
                 codec |-> <<CodecCall("DecomposeJWT", jwt.val, c.err)>>]
        ELSE [outgoing |-> AppendToOutgoingContext(outgoing,
                  <<<<"authorization", Bearer \o jwt.val>>>>),
              codec |-> <<>>]

-----------------------------------------------------------------------------
(* shippingservice/jwt_forwarder.go: a leaf                                *)

\* an interceptor that looks at authorization before x-jwt-payload
shippingservice_jwtUnaryServerInterceptor_authorizationFirst(in) ==
    IF in.ok /\ Len(in.md["authorization"]) > 0 THEN
        [jwtToken |-> TrimPrefix(in.md["authorization"][1], Bearer), codec |-> <<>>]
    ELSE IF in.ok /\ Len(in.md["x-jwt-payload"]) > 0 THEN
        [jwtToken |-> Sprintf3(<<>>, EncodeToString(in.md["x-jwt-payload"][1]),
                               IF Len(in.md["x-jwt-sig"]) > 0
                               THEN in.md["x-jwt-sig"][1] ELSE <<>>),
         codec |-> <<>>]
    ELSE [jwtToken |-> <<>>, codec |-> <<>>]

\* jwtUnaryServerInterceptor: the value of jwtToken when the handler is
\* invoked, and the codec calls made.  The interceptor builds
\* JWTComponents{Payload, Signature}: the Header field of the 3-way struct
\* keeps its zero value
shippingservice_jwtUnaryServerInterceptor(in) ==
    IF ~in.ok THEN [jwtToken |-> <<>>, codec |-> <<>>]
    ELSE IF Len(in.md["x-jwt-payload"]) > 0 THEN
        LET signature == IF Len(in.md["x-jwt-sig"]) > 0
                         THEN in.md["x-jwt-sig"][1] ELSE <<>>
            c == [Header |-> <<>>, Payload |-> in.md["x-jwt-payload"][1],
                  Signature |-> signature]
        IN  [jwtToken |-> shippingservice_ReassembleJWT(c),
             codec |-> <<CodecCall("ReassembleJWT", c.Payload, FALSE)>>]
    ELSE IF Len(in.md["authorization"]) > 0 THEN
        [jwtToken |-> TrimPrefix(in.md["authorization"][1], Bearer), codec |-> <<>>]
    ELSE [jwtToken |-> <<>>, codec |-> <<>>]

-----------------------------------------------------------------------------
(* The 4-way relay (an earlier checkoutservice/jwt_forwarder.go) and the    *)
(* cart service's interceptors.  A run of a server interceptor is described *)
(* by how it ends ("returned": it returned what the handler returned), how  *)
(* many times it invoked the handler, and the credential it yields.         *)

\* return handler(ctx, req)
Returned(yields) == [outcome |-> "returned", handled |-> 1, yields |-> yields]

\* the interceptor ended without reaching the handler
Aborted(how) == [outcome |-> how, handled |-> 0, yields |-> Absent]

\* the 4-way jwtUnaryServerInterceptor.  re: what the 4-way ReassembleJWT
\* returns for the components, [err, token].  md.Get("x-jwt-session")[0] is
\* evaluated without a look at the length of the list
checkoutservice4_jwtUnaryServerInterceptor(in, re) ==
    IF ~in.ok THEN Returned(Absent)
    ELSE IF Len(in.md["x-jwt-static"]) > 0 THEN
        IF Len(in.md["x-jwt-session"]) = 0 THEN Aborted("panic")
        ELSE IF re.err THEN Returned(Absent)
        ELSE IF re.token # <<>> THEN Returned(Value(re.token))
        ELSE Returned(Absent)
    ELSE IF Len(in.md["authorization"]) > 0 THEN
        LET tok == TrimPrefix(in.md["authorization"][1], Bearer)
        IN  IF tok # <<>> THEN Returned(Value(tok)) ELSE Returned(Absent)
    ELSE Returned(Absent)

\* String.Replace(old, ""): every occurrence of old is removed, left to right
RECURSIVE Remove(_, _)
Remove(s, old) ==
    IF Len(s) = 0 THEN <<>>
    ELSE IF HasPrefix(s, old) THEN Remove(SubSeq(s, Len(old) + 1, Len(s)), old)
    ELSE <<Head(s)>> \o Remove(Tail(s), old)

\* cartservice, the 4-way JwtLoggingInterceptor.UnaryServerHandler.  re: what
\* its ReassembleJWT returns, [err |-> it returned null, token].
\* RequestHeaders.First(x-jwt-session) stands before the try block and
\* throws when no header matches; a missing x-jwt-dynamic or x-jwt-sig throws
\* inside the try block and is caught
cartservice4_UnaryServerHandler(in, re) ==
    IF in.ok /\ Len(in.md["x-jwt-static"]) > 0 THEN
        IF Len(in.md["x-jwt-session"]) = 0 THEN Aborted("threw")
        ELSE IF Len(in.md["x-jwt-dynamic"]) = 0 \/ Len(in.md["x-jwt-sig"]) = 0
        THEN Returned(Absent)
        ELSE IF re.err THEN Returned(Absent)
        ELSE Returned(Value(re.token))
    ELSE IF in.ok /\ Len(in.md["authorization"]) > 0
    THEN Returned(Value(Remove(in.md["authorization"][1], Bearer)))
    ELSE Returned(Absent)

\* cartservice, the 2-way JwtLoggingInterceptor: ReassembleJWT with the
\* hardcoded header
cartservice_ReassembleJWT(payloadJson, signature) ==
    Sprintf3(JWTHeaderB64, EncodeToString(payloadJson), signature)

\* cartservice, the 2-way UnaryServerHandler: the credential is reassembled
\* only when both headers are there, and the continuation always runs
cartservice_UnaryServerHandler(in) ==
    IF in.ok /\ Len(in.md["x-jwt-payload"]) > 0 /\ Len(in.md["x-jwt-sig"]) > 0
    THEN Returned(Value(cartservice_ReassembleJWT(
                            in.md["x-jwt-payload"][1], in.md["x-jwt-sig"][1])))
    ELSE Returned(Absent)

-----------------------------------------------------------------------------
(* frontend: the originating interceptor                                   *)

ProductCatalogService ==
    <<80, 114, 111, 100, 117, 99, 116, 67, 97, 116, 97, 108, 111, 103, 83, 101, 114,
      118, 105, 99, 101>>

CurrencyService ==
    <<67, 117, 114, 114, 101, 110, 99, 121, 83, 101, 114, 118, 105, 99, 101>>

AdService == <<65, 100, 83, 101, 114, 118, 105, 99, 101>>

RecommendationService ==
    <<82, 101, 99, 111, 109, 109, 101, 110, 100, 97, 116, 105, 111, 110, 83, 101, 114,
      118, 105, 99, 101>>

\* no method is skipped
shouldSkipJWT_never(method) == FALSE

shouldSkipJWT(method) ==
    \/ Contains(method, ProductCatalogService)
    \/ Contains(method, CurrencyService)
    \/ Contains(method, AdService)
    \/ Contains(method, RecommendationService)

\* jwtUnaryClientInterceptor.  tokenStr: ctx.Value(ctxKeyJWTToken{}); regen:
\* the outcome of the claims fallback, [claims |-> are there claims in the
\* context, err |-> did generateJWTFromClaims fail, token |-> the token it
\* returned]; outgoing: the outgoing metadata the context already holds.  The
\* result is the outgoing metadata of the context handed to the invoker, and
\* the codec calls made.  The components put on the wire are those of the
\* JWTComponents struct of frontend/jwt_compression.go (Payload, Signature).
frontend_jwtUnaryClientInterceptor(method, tokenStr, regen, outgoing, env) ==
    IF shouldSkipJWT(method) THEN [outgoing |-> outgoing, codec |-> <<>>]
    ELSE IF (~tokenStr.ok \/ tokenStr.val = <<>>) /\ (~regen.claims \/ regen.err)
    THEN [outgoing |-> outgoing, codec |-> <<>>]
    ELSE
        LET tok == IF ~tokenStr.ok \/ tokenStr.val = <<>> THEN regen.token
                   ELSE tokenStr.val
        IN  IF IsJWTCompressionEnabled(env) THEN
                LET c == DecomposeJWT(tok)
                IN  [outgoing |->
                         IF c.err
                         THEN NewOutgoingContext(outgoing,
                                  <<<<"authorization", Bearer \o tok>>>>)
                         ELSE NewOutgoingContext(outgoing,
                                  <<<<"x-jwt-payload", c.Payload>>,
                                    <<"x-jwt-sig", c.Signature>>>>),
                     codec |-> <<CodecCall("DecomposeJWT", tok, c.err)>>]
            ELSE [outgoing |-> NewOutgoingContext(outgoing,
                      <<<<"authorization", Bearer \o tok>>>>),
                  codec |-> <<>>]

\* jwtStreamClientInterceptor: as the unary interceptor, without the claims
\* fallback
frontend_jwtStreamClientInterceptor(method, tokenStr, outgoing, env) ==
    IF shouldSkipJWT(method) THEN [outgoing |-> outgoing, codec |-> <<>>]
    ELSE IF ~tokenStr.ok \/ tokenStr.val = <<>>
    THEN [outgoing |-> outgoing, codec |-> <<>>]
    ELSE
        LET tok == tokenStr.val
        IN  IF IsJWTCompressionEnabled(env) THEN
                LET c == DecomposeJWT(tok)
                IN  [outgoing |->
                         IF c.err
                         THEN NewOutgoingContext(outgoing,
                                  <<<<"authorization", Bearer \o tok>>>>)
                         ELSE NewOutgoingContext(outgoing,
                                  <<<<"x-jwt-payload", c.Payload>>,
                                    <<"x-jwt-sig", c.Signature>>>>),
                     codec |-> <<CodecCall("DecomposeJWT", tok, c.err)>>]
            ELSE [outgoing |-> NewOutgoingContext(outgoing,
                      <<<<"authorization", Bearer \o tok>>>>),
                  codec |-> <<>>]

-----------------------------------------------------------------------------
(* paymentservice/jwt_compression.js: a sender                             *)

\* process.env.ENABLE_JWT_COMPRESSION === 'true'
paymentservice_isJWTCompressionEnabled(env) == env = "true"

\* the value is added after the values the key already has
MetadataSet_added(md, key, value) == [md EXCEPT ![key] = Append(@, value)]

\* grpc Metadata.set(key, value): the values of the key are replaced
MetadataSet(md, key, value) == [md EXCEPT ![key] = <<value>>]

\* getMetadataValue(metadata, key): the first value of the key, or null.
\* [ok |-> FALSE] is null
getMetadataValue(md, key) == IF Len(md[key]) > 0 THEN Value(md[key][1]) ELSE Absent

\* reassembleJWT(metadata): the credential, or null.  A JavaScript string is
\* falsy when it is empty.  Buffer.from(s, 'utf8').toString('base64url') is
\* the unpadded base64url of the bytes of s (header values are ASCII)
paymentservice_reassembleJWT(md) ==
    LET payloadHeader == getMetadataValue(md, "x-jwt-payload")
        signature == getMetadataValue(md, "x-jwt-sig")
        authHeader == getMetadataValue(md, "authorization")
    IN  IF /\ payloadHeader.ok /\ payloadHeader.val # <<>>
           /\ signature.ok /\ signature.val # <<>>
        THEN Value(Sprintf3(JWTHeaderB64, EncodeToString(payloadHeader.val),
                            signature.val))
        ELSE IF authHeader.ok /\ authHeader.val # <<>> /\ HasPrefix(authHeader.val, Bearer)
        THEN Value(SubSeq(authHeader.val, 8, Len(authHeader.val)))
        ELSE Absent

\* decomposeJWT.  payloadJson: the string that
\* Buffer.from(payloadB64, 'base64url').toString('utf8') gives for the
\* payload segment.  [null |-> TRUE] is the null the function returns
paymentservice_decomposeJWT(jwt, payloadJson) ==
    IF jwt = <<>> \/ Len(Split(jwt)) # 3
    THEN [null |-> TRUE, payload |-> <<>>, signature |-> <<>>]
    ELSE [null |-> FALSE, payload |-> payloadJson, signature |-> Split(jwt)[3]]

\* addCompressedJWT(metadata, jwt), jwt a string: the metadata afterwards
paymentservice_addCompressedJWT(metadata, jwt, payloadJson, env) ==
    IF jwt = <<>> \/ ~paymentservice_isJWTCompressionEnabled(env)
    THEN MetadataSet(metadata, "authorization", Bearer \o jwt)
    ELSE LET c == paymentservice_decomposeJWT(jwt, payloadJson)
         IN  IF c.null
             THEN MetadataSet(metadata, "authorization", Bearer \o jwt)
             ELSE MetadataSet(MetadataSet(metadata, "x-jwt-payload", c.payload),
                              "x-jwt-sig", c.signature)

-----------------------------------------------------------------------------
(* Credentials given to the codec                                          *)

\* bytes of the payload segments: 'Q', 'R', '_', '\n', '='
PayloadBytes == {81, 82, 95, 10, 61}

Headers == {JWTHeaderB64, ScenarioHeader, <<>>}

Signatures == {ScenarioSig, <<>>}

PayloadSegments == SeqsUpTo(PayloadBytes, MaxPayloadLen)

\* strings that do not split into three segments
Malformed ==
    {<<>>, ScenarioSig, ScenarioHeader \o Dot \o ScenarioSig,
     Sprintf3(JWTHeaderB64, <<81, 81>>, ScenarioSig) \o Dot \o ScenarioSig}

Credentials ==
    {Sprintf3(h, p, s) : h \in Headers, p \in PayloadSegments, s \in Signatures}
        \cup Malformed

-----------------------------------------------------------------------------
(* Inputs of the call chain                                                *)

\* {"sub":"u1"}, the raw payload of the specification's scenario A
ScenarioPayload == <<123, 34, 115, 117, 98, 34, 58, 34, 117, 49, 34, 125>>

\* "/hipstershop.CheckoutService/PlaceOrder"
PlaceOrder ==
    <<47, 104, 105, 112, 115, 116, 101, 114, 115, 104, 111, 112, 46, 67, 104, 101, 99,
      107, 111, 117, 116, 83, 101, 114, 118, 105, 99, 101, 47, 80, 108, 97, 99, 101,
      79, 114, 100, 101, 114>>

\* "/hipstershop.AdService/GetAds"
GetAds ==
    <<47, 104, 105, 112, 115, 116, 101, 114, 115, 104, 111, 112, 46, 65, 100, 83, 101,
      114, 118, 105, 99, 101, 47, 71, 101, 116, 65, 100, 115>>

\* methods of the other services shouldSkipJWT names
OtherSkippedMethods ==
    {\* "/hipstershop.ProductCatalogService/ListProducts"
     <<47, 104, 105, 112, 115, 116, 101, 114, 115, 104, 111, 112, 46, 80, 114, 111,
       100, 117, 99, 116, 67, 97, 116, 97, 108, 111, 103, 83, 101, 114, 118, 105, 99,
       101, 47, 76, 105, 115, 116, 80, 114, 111, 100, 117, 99, 116, 115>>,
     \* "/hipstershop.CurrencyService/Convert"
     <<47, 104, 105, 112, 115, 116, 101, 114, 115, 104, 111, 112, 46, 67, 117, 114,
       114, 101, 110, 99, 121, 83, 101, 114, 118, 105, 99, 101, 47, 67, 111, 110, 118,
       101, 114, 116>>,
     \* "/hipstershop.RecommendationService/ListRecommendations"
     <<47, 104, 105, 112, 115, 116, 101, 114, 115, 104, 111, 112, 46, 82, 101, 99, 111,
       109, 109, 101, 110, 100, 97, 116, 105, 111, 110, 83, 101, 114, 118, 105, 99,
       101, 47, 76, 105, 115, 116, 82, 101, 99, 111, 109, 109, 101, 110, 100, 97, 116,
       105, 111, 110, 115>>}

Methods == {PlaceOrder, GetAds}

\* methods the frontend calls
FrontendMethods == Methods \cup OtherSkippedMethods

Environs == {"true", "false"}

\* a well-formed credential: JWTHeaderB64 . "QQ" . "c2ln"
GoodCredential == Sprintf3(JWTHeaderB64, <<81, 81>>, ScenarioSig)

\* credentials the frontend may hold for a call
ChainCredentials ==
    {Sprintf3(h, p, s) : h \in Headers,
                         p \in SeqsUpTo(PayloadBytes, MaxChainPayloadLen),
                         s \in Signatures}
        \cup Malformed

\* outcomes of the claims fallback of the frontend interceptor
RegenOutcomes ==
    {[claims |-> FALSE, err |-> FALSE, token |-> <<>>],
     [claims |-> TRUE, err |-> TRUE, token |-> <<>>],
     [claims |-> TRUE, err |-> FALSE, token |-> GoodCredential]}

\* outgoing metadata a context may hold before a client interceptor runs
OutgoingBefore == {EmptyMD, [EmptyMD EXCEPT !["x-request-id"] = <<<<49>>>>]}

NoEdge ==
    [method |-> <<>>, tokenStr |-> Absent,
     regen |-> [claims |-> FALSE, err |-> FALSE, token |-> <<>>],
     outgoing |-> EmptyMD, codec |-> <<>>]

\* metadata the payment service's sender may be given: empty, or holding the
\* authorization value of an earlier call
PaymentMetadata == {EmptyMD, [EmptyMD EXCEPT !["authorization"] = <<Bearer>>]}

\* strings a base64url payload segment may decode to in Node.js
PayloadStrings == {<<>>, ScenarioPayload}

\* "aGVhZGVy.eyJzdWIiOiJ1MSJ9.c2ln", the credential of scenario A
ScenarioCredential == Sprintf3(ScenarioHeader, EncodeToString(ScenarioPayload), ScenarioSig)

\* credentials a sender of the 3-way scheme may hold
ThreeWayCredentials == {ScenarioCredential, GoodCredential}

\* no metadata in the incoming context
NoCall == [ok |-> FALSE, md |-> EmptyMD]

\* a value list of an inbound key: absent, or one of the values
OneOf(S) == {<<>>} \cup {<<v>> : v \in S}

AuthorizationValues ==
    LET toks == {GoodCredential, ScenarioHeader \o Dot \o ScenarioSig}
    IN  toks \cup {Bearer \o t : t \in toks \cup {<<>>}}

\* calls an arbitrary client may send to a server interceptor
ClientCalls ==
    {NoCall} \cup
    {[ok |-> TRUE,
      md |-> [EmptyMD EXCEPT !["x-jwt-payload"] = p, !["x-jwt-sig"] = s,
                             !["authorization"] = a, !["x-jwt-static"] = st]] :
        p \in OneOf({<<>>, ScenarioPayload}), s \in OneOf({<<>>, ScenarioSig}),
        a \in OneOf(AuthorizationValues), st \in OneOf({ScenarioPayload})}

-----------------------------------------------------------------------------
(* The codec run alone: one credential, decomposed and then reassembled    *)

CodecIdle ==
    /\ jwtToken = <<>>
    /\ components = NoComponents
    /\ reassembled = <<>>
    /\ codecPc = "off"

ChainIdle ==
    /\ environ = [frontend |-> "false", checkout |-> "false"]
    /\ pc = "off"
    /\ origin = "none"
    /\ edge = NoEdge
    /\ relayIn = NoCall
    /\ relayCtx = NoCallContext
    /\ relayOutgoing = EmptyMD
    /\ relayHandled = 0
    /\ calls = <<>>

ServerIdle ==
    srv = [service |-> "none", in |-> NoCall, handled |-> 0, outcome |-> "off",
           yields |-> Absent]

PaymentIdle ==
    payment = [env |-> "false", jwt |-> <<>>, given |-> EmptyMD, metadata |-> EmptyMD,
               sent |-> FALSE]

WorkersIdle == workers = <<>>

RetryIdle ==
    retry = [pc |-> "off", attempt |-> 0, errs |-> <<>>, slept |-> <<>>,
             result |-> [kind |-> "nil", code |-> "OK"], ctx |-> <<>>, passed |-> <<>>,
             done |-> [err |-> "none", at |-> 0]]

InjectorIdle == injector = [config |-> <<>>, calls |-> <<>>]

ClientIdle == RetryIdle /\ InjectorIdle

InFlightIdle ==
    inflight = [env |-> "false", in |-> <<>>, ctx |-> <<>>, pc |-> <<>>, out |-> <<>>]

InitCodec ==
    /\ jwtToken \in Credentials
    /\ components = NoComponents
    /\ reassembled = <<>>
    /\ codecPc = "idle"
    /\ ChainIdle
    /\ ServerIdle
    /\ PaymentIdle
    /\ InFlightIdle
    /\ WorkersIdle
    /\ ClientIdle

Decompose ==
    /\ codecPc = "idle"
    /\ components' = DecomposeJWT(jwtToken)
    /\ codecPc' = IF components'.err THEN "failed" ELSE "decomposed"
    /\ UNCHANGED <<retry, injector, jwtToken, reassembled, chainVars, srv, payment, inflight, workers>>

Reassemble ==
    /\ codecPc = "decomposed"
    /\ reassembled' = ReassembleJWT(components)
    /\ codecPc' = "reassembled"
    /\ UNCHANGED <<retry, injector, jwtToken, components, chainVars, srv, payment, inflight, workers>>

NextCodec == Decompose \/ Reassemble

SpecCodec == InitCodec /\ [][NextCodec]_vars

-----------------------------------------------------------------------------
(* The call chain: frontend -> checkout (relay) -> shipping (leaf), or a    *)
(* call sent by an arbitrary client to the relay or to the leaf.  A unary   *)
(* call blocks its caller, so the hops run one after the other.            *)

Init ==
    /\ CodecIdle
    /\ ServerIdle
    /\ environ \in [frontend : Environs, checkout : Environs]
    /\ pc = "start"
    /\ origin = "none"
    /\ edge = NoEdge
    /\ relayIn = NoCall
    /\ relayCtx = NoCallContext
    /\ relayOutgoing = EmptyMD
    /\ relayHandled = 0
    /\ calls = <<>>
    /\ PaymentIdle
    /\ InFlightIdle
    /\ WorkersIdle
    /\ ClientIdle

\* the frontend makes a call: its client interceptor runs and the invoker
\* sends the outgoing metadata to the relay
FrontendCall ==
    /\ pc = "start"
    /\ \E m \in Methods, t \in {Absent} \cup {Value(c) : c \in ChainCredentials},
          r \in RegenOutcomes, o \in OutgoingBefore :
        LET sent == frontend_jwtUnaryClientInterceptor(m, t, r, o, environ.frontend)
        IN  /\ edge' = [method |-> m, tokenStr |-> t, regen |-> r, outgoing |-> o,
                        codec |-> sent.codec]
            /\ relayIn' = [ok |-> TRUE, md |-> sent.outgoing]
    /\ origin' = "frontend"
    /\ pc' = "relayServer"
    /\ UNCHANGED <<retry, injector, codecVars, srv, payment, inflight, workers, environ, relayCtx, relayOutgoing, relayHandled, calls>>

\* some other client calls the relay
ClientCall ==
    /\ pc = "start"
    /\ relayIn' \in ClientCalls
    /\ origin' = "client"
    /\ pc' = "relayServer"
    /\ UNCHANGED <<retry, injector, codecVars, srv, payment, inflight, workers, environ, edge, relayCtx, relayOutgoing, relayHandled, calls>>

\* the relay's server interceptor (of a unary call or of a stream) captures
\* the credential and invokes the handler
RelayServer ==
    /\ pc = "relayServer"
    /\ \E kind \in {"unary", "stream"} :
        relayCtx' = IF kind = "unary"
                    THEN checkoutservice_jwtUnaryServerInterceptor(relayIn)
                    ELSE checkoutservice_jwtStreamServerInterceptor(relayIn)
    /\ relayOutgoing' \in OutgoingBefore
    /\ relayHandled' = relayHandled + 1
    /\ pc' = "handler"
    /\ UNCHANGED <<retry, injector, codecVars, srv, payment, inflight, workers, environ, origin, edge, relayIn, calls>>

\* the relay's handler makes an outbound call, unary or a stream: the client
\* interceptor of that kind runs and the invoker or the streamer sends the
\* call to a leaf
RelayOutbound ==
    /\ pc = "handler"
    /\ Len(calls) < MaxFanOut
    /\ \E kind \in {"unary", "stream"} :
       LET sent == IF kind = "unary"
                   THEN checkoutservice_jwtUnaryClientInterceptor(
                            relayCtx, relayOutgoing, environ.checkout)
                   ELSE checkoutservice_jwtStreamClientInterceptor(
                            relayCtx, relayOutgoing, environ.checkout)
       IN  calls' = Append(calls,
               [in |-> [ok |-> TRUE, md |-> sent.outgoing], codec |-> sent.codec,
                jwtToken |-> <<>>, leafCodec |-> <<>>, handled |-> 0])
    /\ pc' = "leafServer"
    /\ UNCHANGED <<retry, injector, codecVars, srv, payment, inflight, workers, environ, origin, edge, relayIn, relayCtx, relayOutgoing,
                   relayHandled>>

\* some other client calls the leaf
LeafClientCall ==
    /\ pc = "start"
    /\ \E c \in ClientCalls :
        calls' = <<[in |-> c, codec |-> <<>>, jwtToken |-> <<>>, leafCodec |-> <<>>,
                    handled |-> 0]>>
    /\ origin' = "leafClient"
    /\ pc' = "leafServer"
    /\ UNCHANGED <<retry, injector, codecVars, srv, payment, inflight, workers, environ, edge, relayIn, relayCtx, relayOutgoing, relayHandled>>

\* a sender of the 3-way scheme calls the leaf: it decomposes its credential
\* with the 3-way DecomposeJWT and puts the three components on the wire as
\* x-jwt-header, x-jwt-payload and x-jwt-sig
ThreeWaySend ==
    /\ pc = "start"
    /\ \E T \in ThreeWayCredentials :
        LET c == shippingservice_DecomposeJWT(T)
        IN  /\ edge' = [NoEdge EXCEPT !.tokenStr = Value(T)]
            /\ calls' = <<[in |-> [ok |-> TRUE, md |-> AppendToOutgoingContext(EmptyMD,
                                      <<<<"x-jwt-header", c.Header>>,
                                        <<"x-jwt-payload", c.Payload>>,
                                        <<"x-jwt-sig", c.Signature>>>>)],
                           codec |-> <<CodecCall("DecomposeJWT", T, c.err)>>,
                           jwtToken |-> <<>>, leafCodec |-> <<>>, handled |-> 0]>>
    /\ origin' = "threeWay"
    /\ pc' = "leafServer"
    /\ UNCHANGED <<retry, injector, codecVars, srv, payment, inflight, workers, environ, relayIn, relayCtx,
                   relayOutgoing, relayHandled>>

\* the leaf's server interceptor reassembles the credential and invokes the
\* handler, which returns
LeafServer ==
    /\ pc = "leafServer"
    /\ LET call == calls[Len(calls)]
           got == shippingservice_jwtUnaryServerInterceptor(call.in)
       IN  calls' = [calls EXCEPT ![Len(calls)] =
               [call EXCEPT !.jwtToken = got.jwtToken, !.leafCodec = got.codec,
                            !.handled = call.handled + 1]]
    /\ pc' = IF origin \in {"leafClient", "threeWay"} THEN "done" ELSE "handler"
    /\ UNCHANGED <<retry, injector, codecVars, srv, payment, inflight, workers, environ, origin, edge, relayIn, relayCtx, relayOutgoing,
                   relayHandled>>

\* the relay's handler returns
RelayReturn ==
    /\ pc = "handler"
    /\ pc' = "done"
    /\ UNCHANGED <<retry, injector, codecVars, srv, payment, inflight, workers, environ, origin, edge, relayIn, relayCtx, relayOutgoing,
                   relayHandled, calls>>

\* the payment service prepares the metadata of a call: addCompressedJWT
\* runs on a credential and a metadata object, with the flag of its process
PaymentSend ==
    /\ pc = "start"
    /\ \E env \in Environs, jwt \in {<<>>} \cup ChainCredentials,
          metadata \in PaymentMetadata, payloadJson \in PayloadStrings :
        payment' = [env |-> env, jwt |-> jwt, given |-> metadata,
                    metadata |-> paymentservice_addCompressedJWT(
                                     metadata, jwt, payloadJson, env),
                    sent |-> TRUE]
    /\ origin' = "payment"
    /\ pc' = "done"
    /\ UNCHANGED <<retry, injector, codecVars, srv, inflight, workers, environ, edge, relayIn, relayCtx,
                   relayOutgoing, relayHandled, calls>>

Next ==
    \/ ThreeWaySend
    \/ PaymentSend
    \/ FrontendCall
    \/ ClientCall
    \/ LeafClientCall
    \/ RelayServer
    \/ RelayOutbound
    \/ LeafServer
    \/ RelayReturn

Spec == Init /\ [][Next]_vars

-----------------------------------------------------------------------------
(* C1: every credential of exactly three dot-separated segments whose       *)
(* payload segment is unpadded base64url (bytes of the URL alphabet only,   *)
(* of a length that is not 1 modulo 4) and whose header segment is          *)
(* JWTHeaderB64 is decomposed without error, and reassembling the result    *)
(* gives the credential back, byte for byte.                                *)

ValidBase64URL(p) ==
    /\ \A i \in 1..Len(p) : decodeMap(p[i]) # 255
    /\ Len(p) % 4 # 1

WellFormed(tok) ==
    /\ Len(Split(tok)) = 3
    /\ ValidBase64URL(Split(tok)[2])

C1_RoundTripIdentity ==
    (WellFormed(jwtToken) /\ Split(jwtToken)[1] = JWTHeaderB64)
        => /\ codecPc # "failed"
           /\ codecPc = "reassembled" => reassembled = jwtToken

-----------------------------------------------------------------------------
(* C14: scenario D, the 2-way codec.  Every credential of three segments    *)
(* whose payload segment is unpadded base64url and whose header segment is  *)
(* not JWTHeaderB64 is decomposed without error, and the reassembled string *)
(* has exactly three segments, is not the credential, and has the payload   *)
(* and signature segments of the credential.                                *)

C14_ForeignHeaderChangesHeaderOnly ==
    (WellFormed(jwtToken) /\ Split(jwtToken)[1] # JWTHeaderB64)
        => /\ codecPc # "failed"
           /\ codecPc = "reassembled"
                  => /\ Len(Split(reassembled)) = 3
                     /\ reassembled # jwtToken
                     /\ Split(reassembled)[2] = Split(jwtToken)[2]
                     /\ Split(reassembled)[3] = Split(jwtToken)[3]

-----------------------------------------------------------------------------
(* One server interceptor alone, given any combination of credential       *)
(* fields                                                                  *)

Services == {"checkout", "checkout4", "shipping", "cart4", "cart", "payment"}

\* inbound calls: each credential field present or absent
ServerCalls ==
    {NoCall} \cup
    {[ok |-> TRUE,
      md |-> [EmptyMD EXCEPT !["x-jwt-payload"] = p, !["x-jwt-sig"] = s,
                             !["authorization"] = a, !["x-jwt-static"] = st,
                             !["x-jwt-session"] = se, !["x-jwt-dynamic"] = dy]] :
        p \in OneOf({ScenarioPayload, <<>>}), s \in OneOf({ScenarioSig}),
        a \in OneOf({Bearer \o GoodCredential, GoodCredential}),
        st \in OneOf({ScenarioPayload}),
        se \in OneOf({ScenarioPayload, ScenarioSig}), dy \in OneOf({ScenarioPayload})}

InitServer ==
    /\ CodecIdle
    /\ ChainIdle
    /\ PaymentIdle
    /\ InFlightIdle
    /\ WorkersIdle
    /\ ClientIdle
    /\ srv \in [service : Services, in : ServerCalls, handled : {0},
                outcome : {"pending"}, yields : {Absent}]

Serve(service, result) ==
    /\ srv.service = service
    /\ srv.outcome = "pending"
    /\ srv' = [srv EXCEPT !.handled = result.handled, !.outcome = result.outcome,
                          !.yields = result.yields]
    /\ UNCHANGED <<retry, injector, codecVars, chainVars, payment, inflight, workers>>

\* what a ReassembleJWT whose code reads JSON may return
ReassembleOutcomes ==
    {[err |-> TRUE, token |-> <<>>], [err |-> FALSE, token |-> GoodCredential]}

\* the 2-way relay: every path ends in return handler(ctx, req)
CheckoutServes ==
    Serve("checkout", Returned(checkoutservice_jwtUnaryServerInterceptor(srv.in)))

Checkout4Serves ==
    \E re \in ReassembleOutcomes :
        Serve("checkout4", checkoutservice4_jwtUnaryServerInterceptor(srv.in, re))

\* the leaf: every path ends in return handler(ctx, req)
ShippingServes ==
    Serve("shipping",
          Returned(Value(shippingservice_jwtUnaryServerInterceptor(srv.in).jwtToken)))

Cart4Serves ==
    \E re \in ReassembleOutcomes :
        Serve("cart4", cartservice4_UnaryServerHandler(srv.in, re))

CartServes == Serve("cart", cartservice_UnaryServerHandler(srv.in))

\* the payment service hands the metadata of the call to reassembleJWT
PaymentServes == Serve("payment", Returned(paymentservice_reassembleJWT(srv.in.md)))

NextServer ==
    \/ PaymentServes
    \/ CheckoutServes
    \/ Checkout4Serves
    \/ ShippingServes
    \/ Cart4Serves
    \/ CartServes

SpecServer == InitServer /\ [][NextServer]_vars

-----------------------------------------------------------------------------
(* Concurrent codec runs.  Each goroutine decomposes its own credential     *)
(* and reassembles the result; the statements of different goroutines       *)
(* interleave.  parts, payloadJSON and payloadB64 are local variables of    *)
(* the call.                                                                *)

WorkerIds == 1..MaxWorkers

Codecs == {"frontend", "shippingservice"}

\* credentials with different payloads, and strings DecomposeJWT rejects
WorkerCredentials ==
    {GoodCredential,
     Sprintf3(ScenarioHeader, <<85, 81>>, <<>>),
     Sprintf3(JWTHeaderB64, <<81>>, ScenarioSig),
     ScenarioHeader \o Dot \o ScenarioSig}

\* the variable is one that all goroutines share
Assign_shared(locals, w, v) == [k \in DOMAIN locals |-> v]

\* an assignment to a local variable of the call goroutine w runs
Assign(locals, w, v) == [locals EXCEPT ![w] = v]

NoLocal == [err |-> FALSE, bytes |-> <<>>]

InitWorkers ==
    /\ CodecIdle
    /\ ChainIdle
    /\ ServerIdle
    /\ PaymentIdle
    /\ InFlightIdle
    /\ ClientIdle
    /\ \E tok \in [WorkerIds -> WorkerCredentials], codec \in [WorkerIds -> Codecs] :
        /\ \A v, w \in WorkerIds : v # w => tok[v] # tok[w]
        /\ workers = [codec |-> codec, tok |-> tok,
                      payload |-> [w \in WorkerIds |-> NoLocal],
                      components |-> [w \in WorkerIds |-> shippingservice_NoComponents],
                      reassembled |-> [w \in WorkerIds |-> <<>>],
                      pc |-> [w \in WorkerIds |-> "start"]]

\* DecomposeJWT up to the decoding of the payload segment
WorkerDecode(w) ==
    /\ workers.pc[w] = "start"
    /\ LET parts == Split(workers.tok[w])
       IN  IF Len(parts) # 3
           THEN workers' = [workers EXCEPT !.pc[w] = "failed"]
           ELSE workers' = [workers EXCEPT
                    !.payload = Assign(@, w, DecodeString(parts[2])),
                    !.pc[w] = "decoded"]
    /\ UNCHANGED <<retry, injector, codecVars, chainVars, srv, payment, inflight>>

\* DecomposeJWT from the test of err to its return
WorkerReturn(w) ==
    /\ workers.pc[w] = "decoded"
    /\ LET parts == Split(workers.tok[w])
           payloadJSON == workers.payload[w]
       IN  IF payloadJSON.err
           THEN workers' = [workers EXCEPT !.pc[w] = "failed"]
           ELSE workers' = [workers EXCEPT
                    !.components[w] =
                        [err |-> FALSE,
                         Header |-> IF workers.codec[w] = "shippingservice"
                                    THEN parts[1] ELSE JWTHeaderB64,
                         Payload |-> payloadJSON.bytes, Signature |-> parts[3]],
                    !.pc[w] = "decomposed"]
    /\ UNCHANGED <<retry, injector, codecVars, chainVars, srv, payment, inflight>>

\* ReassembleJWT: the payload is encoded
WorkerEncode(w) ==
    /\ workers.pc[w] = "decomposed"
    /\ workers' = [workers EXCEPT
           !.payload = Assign(@, w, [err |-> FALSE,
                                     bytes |-> EncodeToString(workers.components[w].Payload)]),
           !.pc[w] = "encoded"]
    /\ UNCHANGED <<retry, injector, codecVars, chainVars, srv, payment, inflight>>

\* ReassembleJWT: the three segments are joined
WorkerJoin(w) ==
    /\ workers.pc[w] = "encoded"
    /\ workers' = [workers EXCEPT
           !.reassembled[w] = Sprintf3(workers.components[w].Header,
                                       workers.payload[w].bytes,
                                       workers.components[w].Signature),
           !.pc[w] = "reassembled"]
    /\ UNCHANGED <<retry, injector, codecVars, chainVars, srv, payment, inflight>>

NextWorkers ==
    \E w \in WorkerIds :
        \/ WorkerDecode(w)
        \/ WorkerReturn(w)
        \/ WorkerEncode(w)
        \/ WorkerJoin(w)

SpecWorkers == InitWorkers /\ [][NextWorkers]_vars

-----------------------------------------------------------------------------
(* C13: whatever the interleaving of codec runs on distinct credentials,    *)
(* each run fails exactly when DecomposeJWT fails on its credential alone,  *)
(* and returns the components and the reassembled string that the           *)
(* functions return for that credential alone.                              *)

\* the results of the functions of codec k run alone on tok
AloneDecomposed(k, tok) ==
    IF k = "shippingservice" THEN shippingservice_DecomposeJWT(tok)
    ELSE [err |-> DecomposeJWT(tok).err, Header |-> JWTHeaderB64,
          Payload |-> DecomposeJWT(tok).Payload,
          Signature |-> DecomposeJWT(tok).Signature]

AloneReassembled(k, tok) ==
    IF k = "shippingservice"
    THEN shippingservice_ReassembleJWT(shippingservice_DecomposeJWT(tok))
    ELSE ReassembleJWT(DecomposeJWT(tok))

C13_CodecRunsDoNotInterfere ==
    \A w \in DOMAIN workers.pc :
        LET k == workers.codec[w]
            tok == workers.tok[w]
        IN  /\ workers.pc[w] = "failed" => AloneDecomposed(k, tok).err
            /\ workers.pc[w] \in {"decomposed", "encoded", "reassembled"}
                   => workers.components[w] = AloneDecomposed(k, tok)
            /\ workers.pc[w] = "reassembled"
                   => workers.reassembled[w] = AloneReassembled(k, tok)

\* two runs, one of each codec, went on side by side and both finished
C13_Witness ==
    /\ workers.pc # <<>>
    /\ workers.pc[1] = "reassembled" /\ workers.pc[2] = "reassembled"
    /\ workers.codec[1] # workers.codec[2]
    /\ workers.reassembled[1] # workers.reassembled[2]

-----------------------------------------------------------------------------
(* Concurrent calls at the relay.  grpc-go runs the interceptors of each    *)
(* inbound call in the goroutine of that call; the steps of different calls *)
(* interleave freely.  The interceptors keep what they capture in the ctx   *)
(* of the call and nowhere else.                                           *)

CallIds == 1..MaxInFlight

\* a raw payload that only call c carries
PayloadOf(c) == ScenarioPayload \o <<48 + c>>

\* a whole credential that only call c carries
CredentialOf(c) == Sprintf3(JWTHeaderB64, EncodeToString(<<48 + c>>), ScenarioSig)

\* what call c may carry inbound
InboundOf(c) ==
    {NoCall,
     [ok |-> TRUE, md |-> [EmptyMD EXCEPT !["x-jwt-payload"] = <<PayloadOf(c)>>,
                                          !["x-jwt-sig"] = <<ScenarioSig>>]],
     [ok |-> TRUE, md |-> [EmptyMD EXCEPT !["x-jwt-payload"] = <<PayloadOf(c)>>]],
     [ok |-> TRUE, md |-> [EmptyMD EXCEPT
                              !["authorization"] = <<Bearer \o CredentialOf(c)>>]]}

\* the values are kept in one place that all calls write and read
WithValue_shared(store, c, values) == [k \in DOMAIN store |-> values]

\* ctx = context.WithValue(ctx, key, value): the new context derives from
\* the ctx of call c, and the contexts of the other calls are as they were
WithValue(store, c, values) == [store EXCEPT ![c] = values]

InitConcurrent ==
    /\ CodecIdle
    /\ ChainIdle
    /\ ServerIdle
    /\ PaymentIdle
    /\ WorkersIdle
    /\ ClientIdle
    /\ \E env \in Environs, in \in [CallIds -> UNION {InboundOf(c) : c \in CallIds}] :
        /\ \A c \in CallIds : in[c] \in InboundOf(c)
        /\ inflight = [env |-> env, in |-> in,
                       ctx |-> [c \in CallIds |-> NoCallContext],
                       pc |-> [c \in CallIds |-> "arrived"],
                       out |-> [c \in CallIds |-> <<>>]]

\* the server interceptor of call c runs and invokes the handler
ConcurrentServer(c) ==
    /\ inflight.pc[c] = "arrived"
    /\ inflight' = [inflight EXCEPT
           !.ctx = WithValue(@, c, checkoutservice_jwtUnaryServerInterceptor(inflight.in[c])),
           !.pc[c] = "handler"]
    /\ UNCHANGED <<retry, injector, codecVars, chainVars, srv, payment, workers>>

\* the handler of call c makes an outbound call: the client interceptor runs
\* on the context of call c
ConcurrentOutbound(c) ==
    /\ inflight.pc[c] = "handler"
    /\ Len(inflight.out[c]) < MaxFanOut
    /\ inflight' = [inflight EXCEPT
           !.out[c] = Append(@, checkoutservice_jwtUnaryClientInterceptor(
                                    inflight.ctx[c], EmptyMD, inflight.env).outgoing)]
    /\ UNCHANGED <<retry, injector, codecVars, chainVars, srv, payment, workers>>

\* the handler of call c returns
ConcurrentReturn(c) ==
    /\ inflight.pc[c] = "handler"
    /\ inflight' = [inflight EXCEPT !.pc[c] = "done"]
    /\ UNCHANGED <<retry, injector, codecVars, chainVars, srv, payment, workers>>

NextConcurrent ==
    \E c \in CallIds :
        \/ ConcurrentServer(c)
        \/ ConcurrentOutbound(c)
        \/ ConcurrentReturn(c)

SpecConcurrent == InitConcurrent /\ [][NextConcurrent]_vars

-----------------------------------------------------------------------------
(* C12: whatever the interleaving of concurrent inbound calls that carry    *)
(* different credentials, every outbound call made for inbound call c       *)
(* carries what the relay sends when it handles c alone, and no credential  *)
(* value of another call.                                                   *)

\* the credential values of md, whatever the key
ValuesOf(md) == UNION {{md[k][i] : i \in 1..Len(md[k])} : k \in CredentialKeys}

\* what the relay sends for the inbound call `in` when no other call runs
SentAlone(in, env) ==
    checkoutservice_jwtUnaryClientInterceptor(
        checkoutservice_jwtUnaryServerInterceptor(in), EmptyMD, env).outgoing

C12_CallsDoNotMix ==
    \A c \in DOMAIN inflight.out : \A n \in 1..Len(inflight.out[c]) :
        /\ inflight.out[c][n] = SentAlone(inflight.in[c], inflight.env)
        /\ \A d \in CallIds \ {c} :
               ValuesOf(inflight.out[c][n])
                   \cap {PayloadOf(d), CredentialOf(d), Bearer \o CredentialOf(d),
                         DecomposeJWT(CredentialOf(d)).Payload} = {}

\* two calls are in their handlers at the same time, one holding components
\* and one a whole credential, and each has sent its own
C12_Witness ==
    /\ inflight.pc # <<>>
    /\ inflight.env = "true"
    /\ inflight.pc[1] = "handler" /\ inflight.pc[2] = "handler"
    /\ Len(inflight.out[1]) = 1 /\ Len(inflight.out[2]) = 1
    /\ inflight.out[1][1]["x-jwt-payload"] = <<PayloadOf(1)>>
    /\ inflight.out[2][1]["x-jwt-payload"] = <<DecomposeJWT(CredentialOf(2)).Payload>>

-----------------------------------------------------------------------------
(* Vocabulary of the claims about the call chain                           *)

\* the outbound metadata carries the credential S whole and in no other form
FallbackOnly(md, S) ==
    /\ md["authorization"] = <<Bearer \o S>>
    /\ \A k \in DecomposedKeys : md[k] = <<>>

NoCredentialField(md) == \A k \in CredentialKeys : md[k] = <<>>

\* the credential the frontend interceptor works with
EdgeCredential ==
    IF edge.tokenStr.ok /\ edge.tokenStr.val # <<>> THEN edge.tokenStr.val
    ELSE edge.regen.token

\* the inbound call of the relay carries x-jwt-payload
RelayGotPayload == relayIn.ok /\ Len(relayIn.md["x-jwt-payload"]) > 0

RelayRan == origin \in {"frontend", "client"} /\ pc \in {"handler", "leafServer", "done"}

-----------------------------------------------------------------------------
(* C2: when a client interceptor (frontend or relay) calls DecomposeJWT on  *)
(* the credential S of its call context and the call fails, the outbound    *)
(* call carries authorization = "Bearer " + S, S unchanged, and no x-jwt-*  *)
(* field.                                                                   *)

C2_DecomposeFailureFallsBack ==
    /\ (origin = "frontend" /\ edge.codec # <<>> /\ edge.codec[1].err)
           => /\ edge.codec[1].arg = EdgeCredential
              /\ FallbackOnly(relayIn.md, EdgeCredential)
    /\ \A n \in 1..Len(calls) :
           (calls[n].codec # <<>> /\ calls[n].codec[1].err)
               => /\ calls[n].codec[1].arg = relayCtx.ctxKeyJWT.val
                  /\ FallbackOnly(calls[n].in.md, relayCtx.ctxKeyJWT.val)

\* both hops of one chain fell back: the frontend on a malformed credential,
\* and the relay on the same credential taken from the authorization field
C2_Witness ==
    /\ pc = "done"
    /\ origin = "frontend"
    /\ edge.codec # <<>> /\ edge.codec[1].err
    /\ Len(calls) > 0
    /\ calls[1].codec # <<>> /\ calls[1].codec[1].err
    /\ calls[1].codec[1].arg = EdgeCredential

-----------------------------------------------------------------------------
(* C3: relay pass-through.  With the scheme active at the relay, for every  *)
(* non-empty P and every Sig (empty or not) received in x-jwt-payload and   *)
(* x-jwt-sig, every outbound call of the relay carries x-jwt-payload = P    *)
(* and x-jwt-sig = Sig, byte-identical.                                     *)

PassedThrough(n) ==
    /\ calls[n].in.md["x-jwt-payload"] = <<relayIn.md["x-jwt-payload"][1]>>
    /\ calls[n].in.md["x-jwt-sig"] = <<relayIn.md["x-jwt-sig"][1]>>

C3_PassThrough ==
    \A n \in 1..Len(calls) :
        (/\ RelayRan
         /\ IsJWTCompressionEnabled(environ.checkout)
         /\ RelayGotPayload
         /\ Len(relayIn.md["x-jwt-sig"]) > 0
         /\ relayIn.md["x-jwt-payload"][1] # <<>>)
            => PassedThrough(n)

\* C3 with the empty payload included
C3_PassThroughAnyValue ==
    \A n \in 1..Len(calls) :
        (/\ RelayRan
         /\ IsJWTCompressionEnabled(environ.checkout)
         /\ RelayGotPayload
         /\ Len(relayIn.md["x-jwt-sig"]) > 0)
            => PassedThrough(n)

\* a fan-out of two calls passed on a payload together with an empty signature
C3_Witness ==
    /\ pc = "done"
    /\ IsJWTCompressionEnabled(environ.checkout)
    /\ RelayGotPayload
    /\ relayIn.md["x-jwt-payload"][1] = ScenarioPayload
    /\ relayIn.md["x-jwt-sig"] = <<<<>>>>
    /\ Len(calls) = 2
    /\ PassedThrough(2)

-----------------------------------------------------------------------------
(* C4: on frontend -> relay -> leaf with the scheme active at the frontend  *)
(* and at the relay, every credential T that the frontend decomposes        *)
(* without error and whose header segment is the header the leaf puts in    *)
(* (the zero value of JWTComponents.Header in the shipping service) is      *)
(* byte-identical to the credential the leaf reassembles.                   *)

C4_EndToEndIdentity ==
    \A n \in 1..Len(calls) :
        (/\ origin = "frontend"
         /\ IsJWTCompressionEnabled(environ.frontend)
         /\ IsJWTCompressionEnabled(environ.checkout)
         /\ edge.codec # <<>> /\ ~edge.codec[1].err
         /\ Split(EdgeCredential)[1] = <<>>
         /\ calls[n].handled = 1)
            => calls[n].jwtToken = EdgeCredential

-----------------------------------------------------------------------------
(* C5: scenario B, the flag false at the sender.  The frontend: for every  *)
(* non-empty credential string of the call context (malformed ones          *)
(* included) and every method shouldSkipJWT does not skip, the outbound     *)
(* call carries exactly one authorization value, "Bearer " + credential,    *)
(* and no decomposed field.  The payment service's addCompressedJWT: the    *)
(* same for every credential string.                                        *)

FrontendSent == origin = "frontend" /\ pc # "start"

PaymentSentWhole ==
    (payment.sent /\ ~paymentservice_isJWTCompressionEnabled(payment.env))
        => FallbackOnly(payment.metadata, payment.jwt)

C5_DisabledSendsWhole ==
    /\ (/\ FrontendSent
        /\ ~IsJWTCompressionEnabled(environ.frontend)
        /\ edge.tokenStr.ok /\ edge.tokenStr.val # <<>>
        /\ ~shouldSkipJWT(edge.method))
           => FallbackOnly(relayIn.md, edge.tokenStr.val)
    /\ PaymentSentWhole

\* C5 for every credential string and every outbound call of the frontend
C5_DisabledSendsWholeAlways ==
    /\ (/\ FrontendSent
        /\ ~IsJWTCompressionEnabled(environ.frontend)
        /\ edge.tokenStr.ok)
           => FallbackOnly(relayIn.md, edge.tokenStr.val)
    /\ PaymentSentWhole

\* the flag is false at the frontend and a malformed credential went out whole
C5_Witness ==
    /\ FrontendSent
    /\ ~IsJWTCompressionEnabled(environ.frontend)
    /\ edge.tokenStr = Value(ScenarioHeader \o Dot \o ScenarioSig)
    /\ ~shouldSkipJWT(edge.method)
    /\ relayIn.md["authorization"] = <<Bearer \o ScenarioHeader \o Dot \o ScenarioSig>>

-----------------------------------------------------------------------------
(* C6: with the flag false at the relay, whatever the form in which the     *)
(* call context holds the credential (whole, or as Components), every       *)
(* outbound call carries it under authorization and carries no decomposed   *)
(* field.                                                                   *)

C6_DisabledRelayUsesFallback ==
    \A n \in 1..Len(calls) :
        (/\ RelayRan
         /\ ~IsJWTCompressionEnabled(environ.checkout)
         /\ (relayCtx.ctxKeyJWT.ok \/ relayCtx.ctxKeyJWTPayload.ok))
            => /\ Len(calls[n].in.md["authorization"]) = 1
               /\ \A k \in DecomposedKeys : calls[n].in.md[k] = <<>>

-----------------------------------------------------------------------------
(* C7: scenario C.  When the inbound call carries neither x-jwt-payload     *)
(* nor authorization, or no metadata at all, the relay's call context      *)
(* stays empty, its handler is invoked, every outbound call carries no      *)
(* credential field whatever the flag, and a leaf that receives such a      *)
(* call invokes its handler with no credential.                            *)

NoCredentialInbound(in) ==
    ~in.ok \/ (in.md["x-jwt-payload"] = <<>> /\ in.md["authorization"] = <<>>)

C7_AnonymousStaysAnonymous ==
    /\ (RelayRan /\ NoCredentialInbound(relayIn))
           => /\ relayCtx = NoCallContext
              /\ relayHandled = 1
              /\ \A n \in 1..Len(calls) : NoCredentialField(calls[n].in.md)
    /\ \A n \in 1..Len(calls) :
           (NoCredentialInbound(calls[n].in) /\ (n < Len(calls) \/ pc # "leafServer"))
               => /\ calls[n].handled = 1
                  /\ calls[n].jwtToken = <<>>

\* an anonymous call went through the relay, flag on, and reached two leaves
C7_Witness ==
    /\ pc = "done"
    /\ origin = "client"
    /\ relayIn.ok
    /\ NoCredentialInbound(relayIn)
    /\ IsJWTCompressionEnabled(environ.checkout)
    /\ relayCtx = NoCallContext
    /\ Len(calls) = 2
    /\ calls[2].handled = 1
    /\ calls[2].jwtToken = <<>>

-----------------------------------------------------------------------------
(* C9: a relay whose call context holds a whole credential tok, taken from  *)
(* the inbound authorization value a.  Scheme active and tok decomposes:    *)
(* every outbound call carries x-jwt-payload and x-jwt-sig equal to         *)
(* DecomposeJWT(tok) and no authorization.  Scheme inactive: every outbound *)
(* call carries authorization = "Bearer " + tok, which is a itself          *)
(* whenever a starts with "Bearer ".                                        *)

RelayHoldsWhole == RelayRan /\ relayCtx.ctxKeyJWT.ok

C9_DecomposeThenEmit(n) ==
    LET c == DecomposeJWT(relayCtx.ctxKeyJWT.val)
    IN  (IsJWTCompressionEnabled(environ.checkout) /\ ~c.err)
            => /\ calls[n].in.md["x-jwt-payload"] = <<c.Payload>>
               /\ calls[n].in.md["x-jwt-sig"] = <<c.Signature>>
               /\ \A k \in CredentialKeys \ {"x-jwt-payload", "x-jwt-sig"} :
                      calls[n].in.md[k] = <<>>

C9_WholeCredentialForwarding ==
    \A n \in 1..Len(calls) :
        RelayHoldsWhole
            => /\ C9_DecomposeThenEmit(n)
               /\ ~IsJWTCompressionEnabled(environ.checkout)
                      => /\ FallbackOnly(calls[n].in.md, relayCtx.ctxKeyJWT.val)
                         /\ HasPrefix(relayIn.md["authorization"][1], Bearer)
                                => calls[n].in.md["authorization"]
                                       = <<relayIn.md["authorization"][1]>>

\* C9 with every inbound authorization value sent on unchanged
C9_WholeCredentialUnchanged ==
    \A n \in 1..Len(calls) :
        RelayHoldsWhole
            => /\ C9_DecomposeThenEmit(n)
               /\ ~IsJWTCompressionEnabled(environ.checkout)
                      => calls[n].in.md["authorization"]
                             = <<relayIn.md["authorization"][1]>>

\* the relay took a credential from "Bearer <credential>" and sent it on
\* decomposed
C9_Witness ==
    /\ pc = "done"
    /\ RelayHoldsWhole
    /\ relayIn.md["authorization"] = <<Bearer \o GoodCredential>>
    /\ IsJWTCompressionEnabled(environ.checkout)
    /\ Len(calls) = 2
    /\ calls[2].in.md["x-jwt-payload"] = <<DecomposeJWT(GoodCredential).Payload>>
    /\ calls[2].in.md["x-jwt-sig"] = <<ScenarioSig>>

-----------------------------------------------------------------------------
(* C10: an inbound call with x-jwt-payload and without x-jwt-sig is         *)
(* treated as a call without credential: the relay keeps nothing and sends  *)
(* no x-jwt-payload/x-jwt-sig pair, and the leaf yields no credential.      *)

MissingSig(in) ==
    in.ok /\ Len(in.md["x-jwt-payload"]) > 0 /\ in.md["x-jwt-sig"] = <<>>

C10_MissingSignatureMeansNoCredential ==
    /\ (RelayRan /\ MissingSig(relayIn))
           => /\ relayCtx = NoCallContext
              /\ \A n \in 1..Len(calls) :
                     /\ calls[n].in.md["x-jwt-payload"] = <<>>
                     /\ calls[n].in.md["x-jwt-sig"] = <<>>
    /\ \A n \in 1..Len(calls) :
           (MissingSig(calls[n].in) /\ calls[n].handled = 1)
               => calls[n].jwtToken = <<>>

-----------------------------------------------------------------------------
(* C11: at every moment of a relay call the call context holds nothing, or  *)
(* a whole credential alone, or a payload entry together with a signature   *)
(* entry: never a whole credential next to a component, never a payload     *)
(* entry without a signature entry.                                        *)

C11_CallContextHoldsOneForm ==
    /\ ~(relayCtx.ctxKeyJWT.ok
           /\ (relayCtx.ctxKeyJWTPayload.ok \/ relayCtx.ctxKeyJWTSig.ok))
    /\ relayCtx.ctxKeyJWTPayload.ok <=> relayCtx.ctxKeyJWTSig.ok

\* the inbound call carried x-jwt-payload and authorization and no x-jwt-sig:
\* the context holds the components, with an entry for the signature
C11_Witness ==
    /\ RelayRan
    /\ Len(relayIn.md["x-jwt-payload"]) > 0
    /\ Len(relayIn.md["authorization"]) > 0
    /\ relayIn.md["x-jwt-sig"] = <<>>
    /\ relayCtx.ctxKeyJWTPayload.ok
    /\ relayCtx.ctxKeyJWTSig.ok
    /\ ~relayCtx.ctxKeyJWT.ok

-----------------------------------------------------------------------------
(* C15: the 3-way scheme.  The leaf reads x-jwt-header into the components  *)
(* it reassembles: for every credential T a 3-way sender decomposes and     *)
(* sends, whatever its header segment, the credential the leaf reassembles  *)
(* has the header segment of T and is T.                                    *)

C15_HeaderTravelsOnTheWire ==
    (origin = "threeWay" /\ pc = "done")
        => /\ Split(calls[1].jwtToken)[1] = Split(edge.tokenStr.val)[1]
           /\ calls[1].jwtToken = edge.tokenStr.val

-----------------------------------------------------------------------------
(* C16: what a terminal interceptor yields.  shippingservice: the           *)
(* reassembled components (the signature empty when x-jwt-sig is absent)    *)
(* when x-jwt-payload is present; otherwise the authorization value         *)
(* without its "Bearer " prefix when authorization is present; otherwise    *)
(* nothing.  paymentservice: the reassembled components when x-jwt-payload  *)
(* and x-jwt-sig are both present and not empty; otherwise the              *)
(* authorization value without its prefix when it starts with "Bearer ";    *)
(* otherwise nothing.  In both, components that are reassembled win over    *)
(* authorization.                                                           *)

Served(service) == srv.service = service /\ srv.outcome = "returned"

Present(key) == srv.in.ok /\ Len(srv.in.md[key]) > 0

\* x-jwt-sig of the inbound call, empty when absent
InboundSig == IF Present("x-jwt-sig") THEN srv.in.md["x-jwt-sig"][1] ELSE <<>>

\* shippingservice yields what C16 says: "" stands for no credential
ShippingYieldsAsStated ==
    Served("shipping")
        => srv.yields.val =
               IF Present("x-jwt-payload")
               THEN Sprintf3(<<>>, EncodeToString(srv.in.md["x-jwt-payload"][1]),
                             InboundSig)
               ELSE IF Present("authorization")
               THEN TrimPrefix(srv.in.md["authorization"][1], Bearer)
               ELSE <<>>

-----------------------------------------------------------------------------
(* C8: whatever credential fields the inbound call carries, a server        *)
(* interceptor invokes the wrapped handler exactly once and returns its     *)
(* result: it neither panics nor throws.                                    *)

C8_HandlerAlwaysInvokedOnce ==
    srv.outcome \notin {"pending", "off"}
        => srv.outcome = "returned" /\ srv.handled = 1

-----------------------------------------------------------------------------
(* The retry layer: retryUnaryClientInterceptor.  An error value is nil, a  *)
(* grpc status error with its code, or an error that carries no status.     *)

maxRetries == 3

\* retryDelay, in milliseconds
retryDelay == 100

NilErr == [kind |-> "nil", code |-> "OK"]

StatusErr(code) == [kind |-> "status", code |-> code]

\* an error status.FromError does not recognise
PlainErr == [kind |-> "plain", code |-> "Unknown"]

\* every error with a status is retried
shouldRetry_anyStatus(err) == err.kind = "status"

shouldRetry(err) ==
    IF err.kind = "nil" THEN FALSE
    ELSE IF err.kind # "status" THEN FALSE
    ELSE IF err.code \in {"Unavailable", "DeadlineExceeded", "Aborted"} THEN TRUE
    ELSE FALSE

\* the loop runs once more
loopCondition_oneMore(attempt) == attempt <= maxRetries + 1

\* attempt <= maxRetries, the condition of the for loop
loopCondition(attempt) == attempt <= maxRetries

\* the same delay before every attempt
SleepOf_constant(attempt) == retryDelay

\* retryDelay * time.Duration(attempt+1)
SleepOf(attempt) == retryDelay * (attempt + 1)

\* what the wrapped invoker may return
InvokerCodes == {"Unavailable", "DeadlineExceeded", "Aborted", "Internal", "Canceled"}

InvokerOutcomes == {NilErr, PlainErr} \cup {StatusErr(c) : c \in InvokerCodes}

\* the ctx of a client call: the credential among its values, and its outgoing
\* metadata
ClientContext(tokenStr, outgoing) == [tokenStr |-> tokenStr, outgoing |-> outgoing]

\* contexts a client interceptor may be given: with or without a credential
\* among the values; the outgoing metadata empty, holding the fallback field,
\* or holding the decomposed fields
ClientContexts ==
    {ClientContext(v, md) :
        v \in {Absent, Value(GoodCredential)},
        md \in {EmptyMD,
                [EmptyMD EXCEPT !["authorization"] = <<Bearer \o GoodCredential>>],
                [EmptyMD EXCEPT !["x-jwt-payload"] = <<DecomposeJWT(GoodCredential).Payload>>,
                                !["x-jwt-sig"] = <<DecomposeJWT(GoodCredential).Signature>>]}}

\* the invoker is given a context without outgoing metadata
InvokerContext_withoutMetadata(ctx) == [ctx EXCEPT !.outgoing = EmptyMD]

\* invoker(ctx, ...), streamer(ctx, ...): the first argument is the ctx the
\* interceptor received
InvokerContext(ctx) == ctx

\* ctx.Err() is nil.  `at`: the attempts made before the ctx ended
ContextLive == [err |-> "none", at |-> 0]

\* what the invoker returns on a ctx in this state: once the ctx has ended
\* the call fails with the status of ctx.Err(), codes.Canceled for
\* context.Canceled and codes.DeadlineExceeded for context.DeadlineExceeded
InvokerReturns(done) ==
    IF done.err = "canceled" THEN {StatusErr("Canceled")}
    ELSE IF done.err = "deadline" THEN {StatusErr("DeadlineExceeded")}
    ELSE InvokerOutcomes

InitRetry ==
    /\ CodecIdle
    /\ ChainIdle
    /\ ServerIdle
    /\ PaymentIdle
    /\ InFlightIdle
    /\ WorkersIdle
    /\ InjectorIdle
    /\ \E ctx \in ClientContexts :
           retry = [pc |-> "loop", attempt |-> 0, errs |-> <<>>, slept |-> <<>>,
                    result |-> NilErr, ctx |-> ctx, passed |-> <<>>,
                    done |-> ContextLive]

\* one pass through the body of the loop: the invoker is called, and its
\* result is returned, or the loop goes on
RetryLoopBody ==
    /\ retry.pc = "loop"
    /\ loopCondition(retry.attempt)
    /\ \E err \in InvokerReturns(retry.done) :
           LET errs == Append(retry.errs, err)
               called == [retry EXCEPT !.errs = errs,
                                       !.passed = Append(@, InvokerContext(retry.ctx))]
           IN  retry' =
                   IF err.kind = "nil"
                   THEN [called EXCEPT !.result = NilErr, !.pc = "returned"]
                   ELSE IF ~shouldRetry(err)
                   THEN [called EXCEPT !.result = err, !.pc = "returned"]
                   ELSE IF retry.attempt < maxRetries
                   THEN [called EXCEPT !.pc = "sleep"]
                   ELSE [called EXCEPT !.attempt = @ + 1]

\* the invoker of the retry layer taken as given: nothing else changes
RetryAttempt ==
    /\ RetryLoopBody
    /\ UNCHANGED <<codecVars, chainVars, srv, payment, inflight, workers, injector>>

\* time.Sleep(retryDelay * time.Duration(attempt+1)), then attempt++
RetrySleep ==
    /\ retry.pc = "sleep"
    /\ retry' = [retry EXCEPT !.slept = Append(@, SleepOf(retry.attempt)),
                              !.attempt = @ + 1,
                              !.pc = "loop"]
    /\ UNCHANGED <<codecVars, chainVars, srv, payment, inflight, workers, injector>>

\* the loop is over: return err
RetryExhausted ==
    /\ retry.pc = "loop"
    /\ ~loopCondition(retry.attempt)
    /\ retry' = [retry EXCEPT !.result = retry.errs[Len(retry.errs)], !.pc = "returned"]
    /\ UNCHANGED <<codecVars, chainVars, srv, payment, inflight, workers, injector>>

NextRetry ==
    \/ RetryAttempt
    \/ RetrySleep
    \/ RetryExhausted

SpecRetry == InitRetry /\ [][NextRetry]_vars

\* the goroutine of the call keeps running: the invoker returns and the
\* sleep ends
SpecRetryFair == SpecRetry /\ WF_vars(NextRetry)

\* codes the specification names as retryable
RetryableCodes == {"Unavailable", "DeadlineExceeded", "Aborted"}

Retryable(err) == err.kind = "status" /\ err.code \in RetryableCodes

(* C17: for every sequence of outcomes of the wrapped call the retry layer  *)
(* calls it at least once and at most maxRetries + 1 = 4 times, and then    *)
(* returns: the loop always terminates.                                     *)
C17_AtMostFourAttempts ==
    /\ [](/\ Len(retry.errs) <= 4
          /\ retry.pc = "returned" => Len(retry.errs) >= 1)
    /\ <>(retry.pc = "returned")

\* four attempts, all failed with a retryable code, three sleeps, returned
C17_Witness ==
    /\ retry.pc = "returned"
    /\ Len(retry.errs) = 4
    /\ Len(retry.slept) = 3
    /\ \A i \in 1..4 : Retryable(retry.errs[i])

(* C18: the retry layer goes on to another attempt exactly when the error   *)
(* of the last attempt has code Unavailable, DeadlineExceeded or Aborted    *)
(* and fewer than four attempts were made; a nil result or any other error  *)
(* is returned at once, and after the fourth retryable failure the last     *)
(* error is returned.                                                       *)
C18_RetryExactlyOnTransient ==
    LET n == Len(retry.errs)
    IN  /\ \A i \in 1..(n - 1) : Retryable(retry.errs[i])
        /\ (retry.pc = "sleep" \/ (retry.pc = "loop" /\ n > 0)) => Retryable(retry.errs[n])
        /\ retry.pc = "sleep" => n < 4
        /\ retry.pc = "returned" =>
               /\ n >= 1
               /\ retry.result = retry.errs[n]
               /\ Retryable(retry.errs[n]) => n = 4

\* a retryable failure, then an error that is not retryable, returned at once
C18_Witness ==
    /\ retry.pc = "returned"
    /\ retry.errs = <<StatusErr("Aborted"), StatusErr("Internal")>>
    /\ retry.result = StatusErr("Internal")

-----------------------------------------------------------------------------
(* The fault injector: errorInjectionUnaryClientInterceptor and what it    *)
(* calls.  ErrorRate and the values of randSource.Float64() are counted in  *)
(* thousandths.                                                            *)

\* values of ERROR_INJECTION_TYPE, as strings
InjectionTypes ==
    [\* "unavailable"
     unavailable |->
         <<117, 110, 97, 118, 97, 105, 108, 97, 98, 108, 101>>,
     \* "timeout"
     timeout |->
         <<116, 105, 109, 101, 111, 117, 116>>,
     \* "internal"
     internal |->
         <<105, 110, 116, 101, 114, 110, 97, 108>>,
     \* "deadline_exceeded"
     deadline_exceeded |->
         <<100, 101, 97, 100, 108, 105, 110, 101, 95, 101, 120, 99, 101, 101, 100, 101,
           100>>,
     \* "connection_refused"
     connection_refused |->
         <<99, 111, 110, 110, 101, 99, 116, 105, 111, 110, 95, 114, 101, 102, 117, 115,
           101, 100>>,
     \* "packet_loss"
     packet_loss |->
         <<112, 97, 99, 107, 101, 116, 95, 108, 111, 115, 115>>,
     \* "random"
     random |->
         <<114, 97, 110, 100, 111, 109>>,
     \* "bogus"
     unknown |->
         <<98, 111, 103, 117, 115>>,
     \* "TIMEOUT"
     upper |->
         <<84, 73, 77, 69, 79, 85, 84>>]

\* values of ERROR_INJECTION_TARGET, as strings
InjectionTargets ==
    [\* "all"
     all |->
         <<97, 108, 108>>,
     \* "CartService"
     CartService |->
         <<67, 97, 114, 116, 83, 101, 114, 118, 105, 99, 101>>,
     \* "AdService, CartService"
     list |->
         <<65, 100, 83, 101, 114, 118, 105, 99, 101, 44, 32, 67, 97, 114, 116, 83, 101,
           114, 118, 105, 99, 101>>,
     \* "ShippingService"
     shipping |->
         <<83, 104, 105, 112, 112, 105, 110, 103, 83, 101, 114, 118, 105, 99, 101>>,
     \* "CartService,"
     trailing |->
         <<67, 97, 114, 116, 83, 101, 114, 118, 105, 99, 101, 44>>]

\* "/hipstershop.CartService/GetCart"
GetCart ==
    <<47, 104, 105, 112, 115, 116, 101, 114, 115, 104, 111, 112, 46, 67, 97, 114, 116,
      83, 101, 114, 118, 105, 99, 101, 47, 71, 101, 116, 67, 97, 114, 116>>

\* strings.ToLower, on ASCII
ToLower(s) == [i \in DOMAIN s |-> IF s[i] >= 65 /\ s[i] <= 90 THEN s[i] + 32 ELSE s[i]]

\* strings.Split(s, ",")
RECURSIVE SplitCommaFrom(_, _, _)
SplitCommaFrom(s, i, cur) ==
    IF i > Len(s) THEN <<cur>>
    ELSE IF s[i] = 44 THEN <<cur>> \o SplitCommaFrom(s, i + 1, <<>>)
    ELSE SplitCommaFrom(s, i + 1, Append(cur, s[i]))

\* the bytes strings.TrimSpace removes
Space == {9, 10, 11, 12, 13, 32}

\* strings.TrimSpace
RECURSIVE TrimSpace(_)
TrimSpace(s) ==
    IF s = <<>> THEN s
    ELSE IF s[1] \in Space THEN TrimSpace(Tail(s))
    ELSE IF s[Len(s)] \in Space THEN TrimSpace(SubSeq(s, 1, Len(s) - 1))
    ELSE s

\* strconv.ParseFloat on the values of ERROR_INJECTION_RATE the model draws
\* from: "0", "1", "2", and "x", which does not parse
ParseFloat(rateStr) ==
    IF rateStr = "0" THEN [ok |-> TRUE, rate |-> 0]
    ELSE IF rateStr = "1" THEN [ok |-> TRUE, rate |-> 1000]
    ELSE IF rateStr = "2" THEN [ok |-> TRUE, rate |-> 2000]
    ELSE [ok |-> FALSE, rate |-> 0]

\* env: the values of ENABLE_ERROR_INJECTION, ERROR_INJECTION_RATE,
\* ERROR_INJECTION_TYPE and ERROR_INJECTION_TARGET, "" or <<>> when unset
loadErrorInjectionConfig(env) ==
    IF env.enable # "true"
    THEN [Enabled |-> FALSE, ErrorRate |-> 0, ErrorType |-> InjectionTypes.unavailable,
          TargetService |-> InjectionTargets.CartService]
    ELSE [Enabled |-> TRUE,
          ErrorRate |->
              IF env.rate # ""
              THEN LET parsed == ParseFloat(env.rate)
                   IN  IF parsed.ok
                       THEN IF parsed.rate >= 0 /\ parsed.rate <= 1000
                            THEN parsed.rate
                            ELSE 100
                       ELSE 100
              ELSE 100,
          ErrorType |-> IF env.type # <<>> THEN ToLower(env.type) ELSE InjectionTypes.unavailable,
          TargetService |-> IF env.target # <<>> THEN env.target ELSE InjectionTargets.CartService]

isTargetService(method, TargetService) ==
    IF TargetService = InjectionTargets.all THEN TRUE
    ELSE LET targets == SplitCommaFrom(TargetService, 1, <<>>)
         IN  \E i \in DOMAIN targets : Contains(method, TrimSpace(targets[i]))

\* draw: the value randSource.Float64() returns
shouldInjectError(config, method, draw) ==
    IF ~config.Enabled THEN FALSE
    ELSE IF ~isTargetService(method, config.TargetService) THEN FALSE
    ELSE draw < config.ErrorRate

\* pick: the value randSource.Intn(len(types)) returns when the type is random
getInjectedError(ErrorType, pick) ==
    LET types == <<InjectionTypes.unavailable, InjectionTypes.timeout, InjectionTypes.internal, InjectionTypes.deadline_exceeded>>
        errorType == IF ErrorType = InjectionTypes.random THEN types[pick + 1] ELSE ErrorType
    IN  IF errorType = InjectionTypes.unavailable THEN StatusErr("Unavailable")
        ELSE IF errorType = InjectionTypes.timeout THEN StatusErr("DeadlineExceeded")
        ELSE IF errorType = InjectionTypes.internal THEN StatusErr("Internal")
        ELSE IF errorType = InjectionTypes.deadline_exceeded THEN StatusErr("DeadlineExceeded")
        ELSE IF errorType = InjectionTypes.connection_refused THEN StatusErr("Unavailable")
        ELSE IF errorType = InjectionTypes.packet_loss THEN StatusErr("Unavailable")
        ELSE StatusErr("Unavailable")

\* the goroutines that call through the injector at the same time
CallerIds == 1..MaxCallers

InjectionEnvs ==
    [enable : {"true", "false"},
     rate   : {"", "0", "1", "2", "x"},
     type   : {<<>>, InjectionTypes.internal, InjectionTypes.upper, InjectionTypes.deadline_exceeded,
               InjectionTypes.connection_refused, InjectionTypes.packet_loss, InjectionTypes.random, InjectionTypes.unknown},
     target : {<<>>, InjectionTargets.all, InjectionTargets.list, InjectionTargets.shipping,
               InjectionTargets.trailing}]

InjectorMethods == {GetCart, GetAds}

\* what the wrapped invoker may return
WrappedOutcomes == {NilErr, StatusErr("Internal")}

\* the values of randSource.Float64(), in thousandths
Draws == {0, 99, 100, 999}

\* the values of randSource.Intn(4)
Picks == 0..3

\* the ctx caller g gives the interceptor: the first caller's holds the
\* decomposed fields, the second's the fallback field, the others' nothing
ContextOf(g) ==
    IF g = 1
    THEN ClientContext(Value(GoodCredential),
             [EmptyMD EXCEPT !["x-jwt-payload"] = <<DecomposeJWT(GoodCredential).Payload>>,
                             !["x-jwt-sig"] = <<DecomposeJWT(GoodCredential).Signature>>])
    ELSE IF g = 2
    THEN ClientContext(Value(GoodCredential),
             [EmptyMD EXCEPT !["authorization"] = <<Bearer \o GoodCredential>>])
    ELSE ClientContext(Absent, EmptyMD)

\* init() and InitErrorInjection have run; every caller is about to enter
\* the interceptor
InitInjector ==
    /\ CodecIdle
    /\ ChainIdle
    /\ ServerIdle
    /\ PaymentIdle
    /\ InFlightIdle
    /\ WorkersIdle
    /\ RetryIdle
    /\ \E env \in InjectionEnvs, methods \in [CallerIds -> InjectorMethods],
          kind \in {"unary", "stream"} :
           injector =
               [config |-> loadErrorInjectionConfig(env),
                calls  |-> [g \in CallerIds |->
                               [method |-> methods[g], kind |-> kind, ctx |-> ContextOf(g),
                                pc |-> "start", raced |-> FALSE, draws |-> 0,
                                invoked |-> <<>>, passed |-> <<>>, injected |-> FALSE,
                                result |-> NilErr]]]

\* the goroutines that are inside a method of randSource
InsideRand == {h \in CallerIds : injector.calls[h].pc \in {"rand", "pick"}}

\* g enters a method of randSource, a *rand.Rand shared by all goroutines and
\* not locked: g and every goroutine then inside it race
EnterRand(g, to) ==
    [h \in CallerIds |->
        IF h = g THEN [injector.calls[g] EXCEPT !.pc = to, !.raced = InsideRand \ {g} # {}]
        ELSE IF h \in InsideRand THEN [injector.calls[h] EXCEPT !.raced = TRUE]
        ELSE injector.calls[h]]

\* invoker(ctx, method, req, reply, cc, opts...) or streamer(ctx, desc, cc,
\* method, opts...), and the return of its result
Invoked(call, out) ==
    [call EXCEPT !.pc = "returned", !.raced = FALSE, !.invoked = Append(@, out),
                 !.passed = Append(@, InvokerContext(call.ctx)), !.result = out]

\* return getInjectedError(method)
Injected(call, err) ==
    [call EXCEPT !.pc = "returned", !.raced = FALSE, !.injected = TRUE, !.result = err]

\* shouldInjectError up to the random draw: false at once when the injector
\* is disabled or the method is not targeted, and the wrapped call is made
InjectorEnter(g) ==
    LET call == injector.calls[g]
        config == injector.config
    IN  /\ call.pc = "start"
        /\ IF ~config.Enabled \/ ~isTargetService(call.method, config.TargetService)
           THEN \E out \in WrappedOutcomes :
                    injector' = [injector EXCEPT !.calls[g] = Invoked(call, out)]
           ELSE injector' = [injector EXCEPT !.calls = EnterRand(g, "rand")]
        /\ UNCHANGED <<codecVars, chainVars, srv, payment, inflight, workers, retry>>

\* randSource.Float64() returns.  After a race its fields are in no defined
\* state: it returns any value, or indexes its vector out of range and panics
InjectorDraw(g) ==
    LET call == [injector.calls[g] EXCEPT !.draws = @ + 1]
        config == injector.config
    IN  /\ injector.calls[g].pc = "rand"
        /\ \/ \E draw \in Draws :
                  IF shouldInjectError(config, call.method, draw)
                  THEN IF config.ErrorType = InjectionTypes.random
                       THEN injector' =
                                [injector EXCEPT
                                    !.calls = [EnterRand(g, "pick") EXCEPT ![g].draws = call.draws]]
                       ELSE injector' =
                                [injector EXCEPT
                                    !.calls[g] =
                                        Injected(call, getInjectedError(config.ErrorType, 0))]
                  ELSE \E out \in WrappedOutcomes :
                           injector' = [injector EXCEPT !.calls[g] = Invoked(call, out)]
           \/ /\ injector.calls[g].raced
              /\ injector' = [injector EXCEPT !.calls[g] = [call EXCEPT !.pc = "panicked"]]
        /\ UNCHANGED <<codecVars, chainVars, srv, payment, inflight, workers, retry>>

\* randSource.Intn(len(types)) returns, in getInjectedError
InjectorPick(g) ==
    LET call == [injector.calls[g] EXCEPT !.draws = @ + 1]
        config == injector.config
    IN  /\ injector.calls[g].pc = "pick"
        /\ \/ \E pick \in Picks :
                  injector' =
                      [injector EXCEPT
                          !.calls[g] = Injected(call, getInjectedError(config.ErrorType, pick))]
           \/ /\ injector.calls[g].raced
              /\ injector' = [injector EXCEPT !.calls[g] = [call EXCEPT !.pc = "panicked"]]
        /\ UNCHANGED <<codecVars, chainVars, srv, payment, inflight, workers, retry>>

NextInjector ==
    \E g \in CallerIds :
        \/ InjectorEnter(g)
        \/ InjectorDraw(g)
        \/ InjectorPick(g)

SpecInjector == InitInjector /\ [][NextInjector]_vars

(* C19: every error the fault injector returns, whatever the configured    *)
(* error type, is one the retry layer classifies as transient: shouldRetry  *)
(* is true of it.                                                          *)
C19_InjectedErrorsAreTransient ==
    \A g \in CallerIds :
        injector.calls[g].injected => shouldRetry(injector.calls[g].result)

(* C20: every call through the fault injector ends in one of two ways: an   *)
(* injected error is returned and the wrapped call was not made, or the     *)
(* wrapped call was made exactly once and its result is returned as it is;  *)
(* with the injector disabled it is always the second, for every method.    *)
C20_InjectOrInvokeOnce ==
    \A g \in CallerIds :
        LET call == injector.calls[g]
        IN  /\ call.pc # "panicked"
            /\ call.pc = "returned" =>
                   \/ call.injected /\ call.invoked = <<>>
                   \/ /\ ~call.injected
                      /\ Len(call.invoked) = 1
                      /\ call.result = call.invoked[1]
            /\ (call.pc = "returned" /\ ~injector.config.Enabled) =>
                   ~call.injected /\ Len(call.invoked) = 1

\* a call goes through the retry layer, or calls go through the fault
\* injector
NextLayers ==
    \/ NextRetry
    \/ injector.calls # <<>> /\ NextInjector

SpecLayers == (InitRetry \/ InitInjector) /\ [][NextLayers]_vars

(* C21: the fault injector and the retry layer leave the credential alone: *)
(* every invocation of the wrapped call they make is given the ctx they     *)
(* received, with the same credential value and the same outgoing metadata  *)
(* (authorization, x-jwt-payload, x-jwt-sig and every other key unchanged). *)
C21_ContextHandedOnUnchanged ==
    [][/\ \A i \in DOMAIN retry'.passed : retry'.passed[i] = retry.ctx
       /\ retry'.ctx = retry.ctx
       /\ \A g \in DOMAIN injector.calls :
              /\ injector'.calls[g].ctx = injector.calls[g].ctx
              /\ \A i \in DOMAIN injector'.calls[g].passed :
                     injector'.calls[g].passed[i] = injector.calls[g].ctx]_vars

\* the retry layer has called the invoker four times for a ctx whose outgoing
\* metadata holds the decomposed fields, and each time handed that ctx on
C21_Witness ==
    /\ retry.pc = "returned"
    /\ Len(retry.passed) = 4
    /\ retry.ctx.outgoing["x-jwt-payload"] # <<>>
    /\ retry.passed[4].outgoing["x-jwt-sig"] = <<ScenarioSig>>

\* the service names a target list gives: its comma-separated elements,
\* without the space around them
ServiceNames(target) ==
    LET elements == SplitCommaFrom(target, 1, <<>>)
    IN  {TrimSpace(elements[i]) : i \in DOMAIN elements} \ {<<>>}

(* C22: an error is injected only into a call whose method belongs to a     *)
(* targeted service: the target is "all", or the method's name contains one *)
(* of the service names of the target list.  With the default target       *)
(* "CartService" no call to another service is failed.                      *)
C22_InjectedOnlyIntoTargets ==
    \A g \in DOMAIN injector.calls :
        LET call == injector.calls[g]
            target == injector.config.TargetService
        IN  call.injected =>
                \/ target = InjectionTargets.all
                \/ \E name \in ServiceNames(target) : Contains(call.method, name)

(* C23: linear backoff.  The delay between failed attempt k and attempt    *)
(* k + 1 is k x 100 ms (100, 200, 300 ms), and no delay follows the 4th     *)
(* attempt or an attempt that ends the loop: a call that has returned after *)
(* n attempts has slept n - 1 times.                                        *)
C23_LinearBackoff ==
    LET n == Len(retry.errs)
    IN  /\ \A k \in DOMAIN retry.slept : retry.slept[k] = k * 100
        /\ Len(retry.slept) <= 3
        /\ retry.pc \in {"sleep", "returned"} => Len(retry.slept) = n - 1
        /\ retry.pc = "loop" =>
               \/ Len(retry.slept) = n /\ n < 4
               \/ Len(retry.slept) = 3 /\ n = 4

\* four failed attempts with 100, 200 and 300 ms between them, and the
\* return without a further delay
C23_Witness ==
    /\ retry.pc = "returned"
    /\ retry.slept = <<100, 200, 300>>
    /\ Len(retry.errs) = 4

-----------------------------------------------------------------------------
(* The frontend's client interceptors alone: one call of any method the    *)
(* frontend makes, unary or stream.  edge holds what the interceptor was    *)
(* given, relayIn the call it sent, origin which interceptor ran.           *)

FrontendAlone ==
    /\ pc = "start"
    /\ \E m \in FrontendMethods, t \in {Absent} \cup {Value(c) : c \in ChainCredentials},
          r \in RegenOutcomes, o \in OutgoingBefore, kind \in {"unary", "stream"} :
        LET sent == IF kind = "unary"
                    THEN frontend_jwtUnaryClientInterceptor(m, t, r, o, environ.frontend)
                    ELSE frontend_jwtStreamClientInterceptor(m, t, o, environ.frontend)
        IN  /\ edge' = [method |-> m, tokenStr |-> t, regen |-> r, outgoing |-> o,
                        codec |-> sent.codec]
            /\ relayIn' = [ok |-> TRUE, md |-> sent.outgoing]
            /\ origin' = IF kind = "unary" THEN "frontendUnary" ELSE "frontendStream"
    /\ pc' = "done"
    /\ UNCHANGED <<retry, injector, codecVars, srv, payment, inflight, workers, environ,
                   relayCtx, relayOutgoing, relayHandled, calls>>

SpecFrontend == Init /\ [][FrontendAlone]_vars

\* a frontend interceptor has sent its call
FrontendAloneSent == origin \in {"frontendUnary", "frontendStream"} /\ pc = "done"

\* the method's name contains the name of a service of the skip list
InSkipList(method) ==
    \E name \in {ProductCatalogService, CurrencyService, AdService, RecommendationService} :
        Contains(method, name)

(* C24: the skip list.  For every outbound method whose name contains       *)
(* ProductCatalogService, CurrencyService, AdService or                     *)
(* RecommendationService the frontend interceptor attaches no credential    *)
(* field, whatever the flag and the credential; for every other method and  *)
(* every non-empty token it attaches one, decomposed or whole.              *)
C24_SkipList ==
    FrontendAloneSent =>
        /\ InSkipList(edge.method) => NoCredentialField(relayIn.md)
        /\ (~InSkipList(edge.method) /\ edge.tokenStr.ok /\ edge.tokenStr.val # <<>>) =>
               ~NoCredentialField(relayIn.md)

\* a call of the recommendation service went out without a credential field
\* although the context holds a well-formed token and the flag is true
C24_Witness ==
    /\ FrontendAloneSent
    /\ Contains(edge.method, RecommendationService)
    /\ edge.tokenStr = Value(GoodCredential)
    /\ IsJWTCompressionEnabled(environ.frontend)
    /\ NoCredentialField(relayIn.md)

(* C25: while it handles one inbound call a hop decomposes the call's      *)
(* credential at most once, however many outbound calls it makes for that   *)
(* inbound call.                                                            *)
C25_DecomposedOncePerHop ==
    Cardinality({n \in 1..Len(calls) :
                    \E i \in DOMAIN calls[n].codec :
                        calls[n].codec[i].op = "DecomposeJWT"}) <= 1

C27_NoCredentialSetsNothing ==
    (payment.sent /\ payment.jwt = <<>>) => payment.metadata = payment.given

-----------------------------------------------------------------------------
(* The 4-way codec of the payment service (an earlier                      *)
(* paymentservice/jwt_compression.js).  A JavaScript object is the list of  *)
(* its properties, <<name, value>>, in insertion order; names and values    *)
(* are strings.  A property that is undefined is not in the list, which is  *)
(* how JSON.stringify treats it.                                            *)

\* the property names decomposeJWT reads
Key ==
    [alg |-> <<97, 108, 103>>,
     typ |-> <<116, 121, 112>>,
     iss |-> <<105, 115, 115>>,
     aud |-> <<97, 117, 100>>,
     name |-> <<110, 97, 109, 101>>,
     sub |-> <<115, 117, 98>>,
     session_id |-> <<115, 101, 115, 115, 105, 111, 110, 95, 105, 100>>,
     market_id |-> <<109, 97, 114, 107, 101, 116, 95, 105, 100>>,
     currency |-> <<99, 117, 114, 114, 101, 110, 99, 121>>,
     cart_id |-> <<99, 97, 114, 116, 95, 105, 100>>,
     exp |-> <<101, 120, 112>>,
     iat |-> <<105, 97, 116>>,
     jti |-> <<106, 116, 105>>]

\* obj.name: the value, or undefined
Property(obj, name) ==
    IF \E i \in DOMAIN obj : obj[i][1] = name
    THEN Value(obj[CHOOSE i \in DOMAIN obj : obj[i][1] = name][2])
    ELSE Absent

\* obj.name = value; a new property goes to the end
SetProperty(obj, name, value) ==
    IF ~value.ok THEN obj
    ELSE IF \E i \in DOMAIN obj : obj[i][1] = name
    THEN [i \in DOMAIN obj |-> IF obj[i][1] = name THEN <<name, value.val>> ELSE obj[i]]
    ELSE Append(obj, <<name, value.val>>)

\* delete obj.name
DeleteProperty(obj, name) == SelectSeq(obj, LAMBDA pair : pair[1] # name)

\* {...a, ...b}
RECURSIVE Spread(_, _)
Spread(a, b) ==
    IF b = <<>> THEN a
    ELSE Spread(SetProperty(a, b[1][1], Value(b[1][2])), Tail(b))

\* { n1: from.n1, n2: from.n2, ... } added to obj, names a list
RECURSIVE Literal(_, _, _)
Literal(obj, from, names) ==
    IF names = <<>> THEN obj
    ELSE Literal(SetProperty(obj, names[1], Property(from, names[1])), from, Tail(names))

\* JSON.stringify of an object with string values: {"n":"v","n":"v"}
RECURSIVE StringifyProperties(_)
StringifyProperties(obj) ==
    IF obj = <<>> THEN <<>>
    ELSE <<34>> \o obj[1][1] \o <<34, 58, 34>> \o obj[1][2] \o <<34>>
             \o (IF Len(obj) > 1 THEN <<44>> ELSE <<>>)
             \o StringifyProperties(Tail(obj))

JSONStringify(obj) == <<123>> \o StringifyProperties(obj) \o <<125>>

\* the place of the first byte b in s, 0 when there is none
IndexByte(s, b) ==
    IF \E i \in DOMAIN s : s[i] = b
    THEN CHOOSE i \in DOMAIN s : s[i] = b /\ \A j \in 1..(i - 1) : s[j] # b
    ELSE 0

SyntaxError == [ok |-> FALSE, obj |-> <<>>]

\* the members of an object: "n":"v" , "n":"v" ...
RECURSIVE ParseMembers(_)
ParseMembers(s) ==
    IF Len(s) < 1 \/ s[1] # 34 THEN SyntaxError
    ELSE
        LET afterQuote == Tail(s)
            q1 == IndexByte(afterQuote, 34)
        IN  IF q1 = 0 THEN SyntaxError
            ELSE
                LET name == SubSeq(afterQuote, 1, q1 - 1)
                    afterName == SubSeq(afterQuote, q1 + 1, Len(afterQuote))
                IN  IF Len(afterName) < 2 \/ SubSeq(afterName, 1, 2) # <<58, 34>>
                    THEN SyntaxError
                    ELSE
                        LET afterColon == SubSeq(afterName, 3, Len(afterName))
                            q2 == IndexByte(afterColon, 34)
                        IN  IF q2 = 0 THEN SyntaxError
                            ELSE
                                LET value == SubSeq(afterColon, 1, q2 - 1)
                                    rest == SubSeq(afterColon, q2 + 1, Len(afterColon))
                                IN  IF rest = <<>>
                                    THEN [ok |-> TRUE, obj |-> <<<<name, value>>>>]
                                    ELSE IF rest[1] # 44 THEN SyntaxError
                                    ELSE
                                        LET more == ParseMembers(Tail(rest))
                                        IN  IF ~more.ok THEN SyntaxError
                                            ELSE [ok |-> TRUE,
                                                  obj |-> <<<<name, value>>>> \o more.obj]

\* JSON.parse, on the JSON the credentials of the model hold: objects with
\* string values, written without white space.  A text that does not start
\* with { is a SyntaxError
JSONParse(text) ==
    IF Len(text) < 2 \/ text[1] # 123 \/ text[Len(text)] # 125 THEN SyntaxError
    ELSE IF Len(text) = 2 THEN [ok |-> TRUE, obj |-> <<>>]
    ELSE ParseMembers(SubSeq(text, 2, Len(text) - 1))

\* jwt.split('.'): the segments between the dots, one segment for ''
splitDots(s) ==
    LET dots == {i \in DOMAIN s : s[i] = 46}
        n == Cardinality(dots)
        bound(k) == IF k = 0 THEN 0
                    ELSE IF k = n + 1 THEN Len(s) + 1
                    ELSE CHOOSE i \in dots : Cardinality({j \in dots : j <= i}) = k
    IN  [k \in 1..(n + 1) |-> SubSeq(s, bound(k - 1) + 1, bound(k) - 1)]

\* decomposeJWT (4-way).  Buffer.from(s, 'base64') does not throw; the text
\* it gives for a segment that is not base64 is not JSON, and JSON.parse
\* throws
paymentservice4_decomposeJWT(jwt) ==
    LET null == [null |-> TRUE, static |-> <<>>, session |-> <<>>, dynamic |-> <<>>,
                 signature |-> <<>>]
        parts == splitDots(jwt)
    IN  IF jwt = <<>> THEN null
        ELSE IF Len(parts) # 3 THEN null
        ELSE
            LET headerText == DecodeString(parts[1])
                payloadText == DecodeString(parts[2])
                header == IF headerText.err THEN SyntaxError ELSE JSONParse(headerText.bytes)
                payload == IF payloadText.err THEN SyntaxError
                           ELSE JSONParse(payloadText.bytes)
            IN  IF ~header.ok \/ ~payload.ok THEN null
                ELSE
                    LET staticClaims ==
                            Literal(Literal(<<>>, header.obj, <<Key.alg, Key.typ>>),
                                    payload.obj, <<Key.iss, Key.aud, Key.name>>)
                        sessionClaims ==
                            Literal(<<>>, payload.obj,
                                    <<Key.sub, Key.session_id, Key.market_id, Key.currency,
                                      Key.cart_id>>)
                        dynamicClaims ==
                            Literal(<<>>, payload.obj, <<Key.exp, Key.iat, Key.jti>>)
                    IN  [null |-> FALSE,
                         static |-> EncodeToString(JSONStringify(staticClaims)),
                         session |-> EncodeToString(JSONStringify(sessionClaims)),
                         dynamic |-> EncodeToString(JSONStringify(dynamicClaims)),
                         signature |-> parts[3]]

\* reassembleJWT (4-way): the credential, or null
paymentservice4_reassembleJWT(md) ==
    LET staticHeader == getMetadataValue(md, "x-jwt-static")
        sessionHeader == getMetadataValue(md, "x-jwt-session")
        dynamicHeader == getMetadataValue(md, "x-jwt-dynamic")
        signature == getMetadataValue(md, "x-jwt-sig")
        authHeader == getMetadataValue(md, "authorization")
        truthy(v) == v.ok /\ v.val # <<>>
    IN  IF truthy(staticHeader) /\ truthy(sessionHeader) /\ truthy(dynamicHeader)
               /\ truthy(signature)
        THEN
            LET staticClaims == JSONParse(staticHeader.val)
                sessionClaims == JSONParse(sessionHeader.val)
                dynamicClaims == JSONParse(dynamicHeader.val)
            IN  IF ~staticClaims.ok \/ ~sessionClaims.ok \/ ~dynamicClaims.ok THEN Absent
                ELSE
                    LET header == Literal(<<>>, staticClaims.obj, <<Key.alg, Key.typ>>)
                        merged == Spread(Spread(Spread(<<>>, staticClaims.obj),
                                                sessionClaims.obj), dynamicClaims.obj)
                        payload == DeleteProperty(DeleteProperty(merged, Key.alg), Key.typ)
                    IN  Value(Sprintf3(EncodeToString(JSONStringify(header)),
                                       EncodeToString(JSONStringify(payload)),
                                       signature.val))
        ELSE IF truthy(authHeader) /\ HasPrefix(authHeader.val, Bearer)
        THEN Value(SubSeq(authHeader.val, 8, Len(authHeader.val)))
        ELSE Absent

\* addCompressedJWT (4-way), jwt a string: the metadata afterwards
paymentservice4_addCompressedJWT(metadata, jwt, env) ==
    IF jwt = <<>> \/ ~paymentservice_isJWTCompressionEnabled(env)
    THEN MetadataSet(metadata, "authorization", Bearer \o jwt)
    ELSE LET c == paymentservice4_decomposeJWT(jwt)
         IN  IF c.null
             THEN MetadataSet(metadata, "authorization", Bearer \o jwt)
             ELSE MetadataSet(MetadataSet(MetadataSet(MetadataSet(metadata,
                      "x-jwt-static", c.static), "x-jwt-session", c.session),
                      "x-jwt-dynamic", c.dynamic), "x-jwt-sig", c.signature)

\* credentials of the 4-way scheme: header and payload are the base64url of
\* the JSON of an object; and two that are not credentials
FourWayCredentials ==
    LET headers == {<<>>, <<<<Key.alg, <<82, 83, 50, 53, 54>>>>, <<Key.typ, <<74, 87, 84>>>>>>}
        names == <<Key.iss, Key.sub, Key.exp>>
        claims == <<<<Key.iss, <<105>>>>, <<Key.sub, <<117, 49>>>>, <<Key.exp, <<57>>>>>>
        payloads == {Literal(<<>>, claims, SelectSeq(names, LAMBDA n : n \in chosen)) :
                        chosen \in SUBSET {Key.iss, Key.sub, Key.exp}}
    IN  {Sprintf3(EncodeToString(JSONStringify(h)), EncodeToString(JSONStringify(p)), sig) :
            h \in headers, p \in payloads, sig \in {ScenarioSig, <<>>}}
        \cup {<<>>, ScenarioHeader \o Dot \o ScenarioSig}

InitFourWay ==
    /\ CodecIdle
    /\ ChainIdle
    /\ ServerIdle
    /\ PaymentIdle
    /\ InFlightIdle
    /\ WorkersIdle
    /\ ClientIdle

\* a 4-way sender prepares the metadata of a call
FourWaySend ==
    /\ ~payment.sent
    /\ \E env \in Environs, jwt \in FourWayCredentials, metadata \in PaymentMetadata :
           payment' = [env |-> env, jwt |-> jwt, given |-> metadata,
                       metadata |-> paymentservice4_addCompressedJWT(metadata, jwt, env),
                       sent |-> TRUE]
    /\ UNCHANGED <<retry, injector, codecVars, chainVars, srv, inflight, workers>>

\* a 4-way receiver gets the call
FourWayReceive ==
    /\ payment.sent
    /\ srv.outcome = "off"
    /\ srv' = [service |-> "payment4", in |-> [ok |-> TRUE, md |-> payment.metadata],
               handled |-> 1, outcome |-> "returned",
               yields |-> paymentservice4_reassembleJWT(payment.metadata)]
    /\ UNCHANGED <<retry, injector, codecVars, chainVars, payment, inflight, workers>>

NextFourWay ==
    \/ FourWaySend
    \/ FourWayReceive

SpecFourWay == InitFourWay /\ [][NextFourWay]_vars

(* C28: the 4-way scheme.  The fields x-jwt-static, x-jwt-session and       *)
(* x-jwt-dynamic a sender puts on the wire are JSON text, and the 4-way     *)
(* receiver's reassembleJWT, given the fields the 4-way sender's            *)
(* decomposeJWT produced, yields a credential.                              *)
C28_FourWayFieldsAreJSON ==
    (/\ srv.service = "payment4"
     /\ paymentservice_isJWTCompressionEnabled(payment.env)
     /\ ~paymentservice4_decomposeJWT(payment.jwt).null) =>
        /\ \A k \in {"x-jwt-static", "x-jwt-session", "x-jwt-dynamic"} :
               /\ Len(srv.in.md[k]) = 1
               /\ JSONParse(srv.in.md[k][1]).ok
        /\ srv.yields.ok

-----------------------------------------------------------------------------
(* The wire forms of the credential-forwarding client interceptors        *)

\* the credential fields an interceptor wrote: the keys whose values differ
\* between the metadata it was given and the metadata it sends
Written(before, after) == {k \in CredentialKeys : after[k] # before[k]}

\* the credential fields a call carries
Carried(md) == {k \in CredentialKeys : md[k] # <<>>}

WireForms == {{}, {"authorization"}, {"x-jwt-payload", "x-jwt-sig"}}

-----------------------------------------------------------------------------
(* The stream variant and the unary variant of each interceptor            *)

\* the same call given to the frontend's two client interceptors: they send
\* the same outgoing metadata
FrontendVariantsAgree ==
    frontend_jwtStreamClientInterceptor(
        edge.method, edge.tokenStr, edge.outgoing, environ.frontend).outgoing
    = frontend_jwtUnaryClientInterceptor(
        edge.method, edge.tokenStr, edge.regen, edge.outgoing,
        environ.frontend).outgoing

\* the same inbound call given to the relay's two server interceptors, the
\* same context given to its two client interceptors
RelayVariantsAgree ==
    /\ checkoutservice_jwtStreamServerInterceptor(relayIn)
           = checkoutservice_jwtUnaryServerInterceptor(relayIn)
    /\ checkoutservice_jwtStreamClientInterceptor(
           relayCtx, relayOutgoing, environ.checkout).outgoing
           = checkoutservice_jwtUnaryClientInterceptor(
                 relayCtx, relayOutgoing, environ.checkout).outgoing

(* C30: for the frontend and for the relay, the stream interceptor and the *)
(* unary interceptor, given the same call context, metadata and flag,       *)
(* capture the same call context and send the same credential fields; this  *)
(* includes a frontend context that holds claims and no token string.       *)
C30_StreamEqualsUnary ==
    /\ FrontendSent => FrontendVariantsAgree
    /\ RelayRan => RelayVariantsAgree

\* the relay's part of C30 alone
C30_RelayStreamEqualsUnary == RelayRan => RelayVariantsAgree

-----------------------------------------------------------------------------
(* The three 2-way leaves on the same inbound call                         *)

\* what each 2-way leaf yields for an inbound call.  The Go interceptor's
\* jwtToken is a string: "" is no credential
LeafYields(in) ==
    [shipping |-> LET tok == shippingservice_jwtUnaryServerInterceptor(in).jwtToken
                  IN  IF tok = <<>> THEN Absent ELSE Value(tok),
     payment |-> paymentservice_reassembleJWT(in.md),
     cart |-> cartservice_UnaryServerHandler(in).yields]

LeafServed == srv.service \in {"shipping", "payment", "cart"} /\ srv.outcome = "returned"

(* C31: the shipping service, the payment service and the cart service     *)
(* given the same inbound call, for every combination of x-jwt-payload,     *)
(* x-jwt-sig and authorization present, absent or empty: all three yield a  *)
(* credential or none does, and the credentials yielded are the same        *)
(* string.                                                                  *)
C31_LeavesAgree ==
    LeafServed =>
        LET y == LeafYields(srv.in)
        IN  y.shipping = y.payment /\ y.payment = y.cart

\* the leaves agree on whether there is a credential, whatever its string
C31_LeavesAgreeOnPresence ==
    LeafServed =>
        LET y == LeafYields(srv.in)
        IN  y.shipping.ok = y.payment.ok /\ y.payment.ok = y.cart.ok

-----------------------------------------------------------------------------
(* The retry layer ahead of a credential-forwarding client interceptor:    *)
(* the invoker the retry interceptor calls is the forwarding interceptor,   *)
(* which runs once per attempt on the ctx it is handed, and whose invoker   *)
(* sends the call.  `calls` holds the call each attempt sent.               *)

\* contexts a handler of the relay may hold
RelayContexts == {checkoutservice_jwtUnaryServerInterceptor(c) : c \in ClientCalls}

\* the context of a later attempt is the one the attempt before it sent
AttemptOutgoing_carriedOver(given, sent) ==
    IF sent = <<>> THEN given ELSE sent[Len(sent)].in.md

\* err = invoker(ctx, method, ...) in the loop: ctx is the parameter of the
\* interceptor, which the loop never assigns, so every attempt starts from
\* the outgoing metadata the call was given
AttemptOutgoing(given, sent) == given

\* the forwarding interceptor the retry layer wraps, run on one attempt
Forwarded(outgoing) ==
    IF origin = "retryFrontend"
    THEN frontend_jwtUnaryClientInterceptor(
             edge.method, edge.tokenStr, edge.regen, outgoing, environ.frontend)
    ELSE checkoutservice_jwtUnaryClientInterceptor(relayCtx, outgoing, environ.checkout)

InitRetryForward ==
    /\ CodecIdle
    /\ ServerIdle
    /\ PaymentIdle
    /\ InFlightIdle
    /\ WorkersIdle
    /\ InjectorIdle
    /\ environ \in [frontend : Environs, checkout : Environs]
    /\ pc = "retry"
    /\ relayIn = NoCall
    /\ relayHandled = 0
    /\ calls = <<>>
    /\ \/ /\ origin = "retryFrontend"
          /\ \E m \in Methods, t \in {Absent, Value(GoodCredential), Value(ScenarioSig)},
                r \in RegenOutcomes, o \in OutgoingBefore :
                 edge = [method |-> m, tokenStr |-> t, regen |-> r, outgoing |-> o,
                         codec |-> <<>>]
          /\ relayCtx = NoCallContext
          /\ relayOutgoing = EmptyMD
          /\ environ.checkout = "false"
       \/ /\ origin = "retryRelay"
          /\ edge = NoEdge
          /\ relayCtx \in RelayContexts
          /\ relayOutgoing \in OutgoingBefore
          /\ environ.frontend = "false"
    /\ retry = [pc |-> "loop", attempt |-> 0, errs |-> <<>>, slept |-> <<>>,
                result |-> NilErr,
                ctx |-> ClientContext(edge.tokenStr,
                           IF origin = "retryFrontend" THEN edge.outgoing
                           ELSE relayOutgoing),
                passed |-> <<>>, done |-> ContextLive]

\* one pass through the body of the retry loop: the forwarding interceptor
\* runs on the ctx of the attempt and its invoker sends the call
ForwardAttempt ==
    /\ RetryLoopBody
    /\ UNCHANGED <<codecVars, srv, payment, inflight, workers, injector, environ, pc,
                   origin, edge, relayIn, relayCtx, relayOutgoing, relayHandled>>
    /\ LET ctx == InvokerContext(retry.ctx)
           sent == Forwarded(AttemptOutgoing(ctx.outgoing, calls))
       IN  calls' = Append(calls,
               [in |-> [ok |-> TRUE, md |-> sent.outgoing], codec |-> sent.codec,
                jwtToken |-> <<>>, leafCodec |-> <<>>, handled |-> 0])

NextRetryForward ==
    \/ ForwardAttempt
    \/ RetrySleep
    \/ RetryExhausted

SpecRetryForward == InitRetryForward /\ [][NextRetryForward]_vars

\* the calls the attempts of the wrapped call have sent
Attempts == [i \in 1..Len(calls) |-> calls[i].in.md]

RetryForwarding == origin \in {"retryFrontend", "retryRelay"}

(* C32: the retry layer ahead of the frontend's or the relay's forwarding  *)
(* interceptor.  Every attempt sends one call; all attempts of a call carry *)
(* the same metadata, so the same credential fields with the same values;   *)
(* and each credential field has one value at most: nothing accumulates     *)
(* from an attempt to the next.  The token the frontend regenerates from    *)
(* the claims of the ctx is the same at every attempt: the claims are.      *)
C32_AttemptsCarrySameCredential ==
    RetryForwarding =>
        /\ Len(calls) = Len(retry.errs)
        /\ \A i \in 1..Len(calls) :
               /\ Attempts[i] = Attempts[1]
               /\ \A k \in CredentialKeys : Len(Attempts[i][k]) <= 1

\* the relay's call was attempted four times, each attempt with the
\* decomposed pair, once
C32_Witness ==
    /\ origin = "retryRelay"
    /\ retry.pc = "returned"
    /\ Len(calls) = maxRetries + 1
    /\ Len(calls[4].in.md["x-jwt-payload"]) = 1
    /\ Len(calls[4].in.md["x-jwt-sig"]) = 1

\* the same for the frontend, with the fallback field
C32_WitnessFrontend ==
    /\ origin = "retryFrontend"
    /\ retry.pc = "returned"
    /\ Len(calls) = maxRetries + 1
    /\ Len(calls[4].in.md["authorization"]) = 1

-----------------------------------------------------------------------------
(* The outgoing metadata a forwarding interceptor leaves alone             *)

\* the entries of the outgoing metadata that are not credential fields are
\* the same in both
SameOtherEntries(before, after) ==
    \A k \in MDKeys \ CredentialKeys : after[k] = before[k]

\* the relay's interceptor alone keeps the other entries
C33_RelayKeepsOtherEntries ==
    RelayRan => \A n \in 1..Len(calls) : SameOtherEntries(relayOutgoing, calls[n].in.md)

(* C33: the outgoing metadata entries that are not credential fields and   *)
(* that the call context held before the forwarding interceptor ran are on  *)
(* the call it sends, with the same values: for the frontend's interceptor  *)
(* and for the relay's.                                                     *)
C33_OtherEntriesKept ==
    /\ FrontendSent => SameOtherEntries(edge.outgoing, relayIn.md)
    /\ RelayRan => \A n \in 1..Len(calls) : SameOtherEntries(relayOutgoing, calls[n].in.md)

-----------------------------------------------------------------------------
(* The retry layer and the end of the enclosing call's context             *)

\* the ctx of the call is cancelled, or its deadline expires, while the
\* retry interceptor runs: between two statements, during an attempt or
\* during a sleep
ContextDone ==
    /\ retry.pc \in {"loop", "sleep"}
    /\ retry.done.err = "none"
    /\ \E e \in {"canceled", "deadline"} :
           retry' = [retry EXCEPT !.done = [err |-> e, at |-> Len(retry.errs)]]
    /\ UNCHANGED <<codecVars, chainVars, srv, payment, inflight, workers, injector>>

NextRetryCancel ==
    \/ NextRetry
    \/ ContextDone

SpecRetryCancel == InitRetry /\ [][NextRetryCancel]_vars

\* attempts made and sleeps taken once the ctx has ended: the first attempt
\* on the ended ctx is the one that observes it
AttemptsOnEndedContext == Len(retry.errs) - retry.done.at

(* C34: once the ctx of the call has been cancelled or its deadline has    *)
(* expired, the retry layer makes one attempt at most, the attempt that     *)
(* observes the ended ctx, and takes no backoff delay after that attempt.   *)
C34_NoAttemptAfterContextEnds ==
    retry.done.err # "none" =>
        /\ AttemptsOnEndedContext <= 1
        /\ AttemptsOnEndedContext = 1 => retry.pc = "returned"

\* the same for cancellation alone
C34_NoAttemptAfterCancel ==
    retry.done.err = "canceled" =>
        /\ AttemptsOnEndedContext <= 1
        /\ AttemptsOnEndedContext = 1 => retry.pc = "returned"

====
